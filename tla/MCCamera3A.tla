---------------------------- MODULE MCCamera3A ----------------------------
(* Requests that differ in every way S4 tells apart.                       *)
EXTENDS Camera3A

MCScenes == {"face", "night", "fixed"}
MCFacePriority == "face"

\* NIGHT as in the header's example; a scene with no algorithm of its own.
MCPreferred == [s \in MCScenes |->
    CASE s = "night" -> [af |-> "CONTINUOUS_PICTURE", ae |-> "ON_AUTO_FLASH", awb |-> "AUTO"]
      [] s = "fixed" -> [af |-> "EDOF", ae |-> "OFF", awb |-> "DAYLIGHT"]
      [] OTHER -> [af |-> "AUTO", ae |-> "ON", awb |-> "AUTO"]]

On(control, scene, f, e, w) ==
    [control |-> control, scene |-> scene, user |-> [af |-> f, ae |-> e, awb |-> w]]

MCSelections ==
    {On("AUTO", "face", f, "ON", "AUTO") : f \in AfModes}
    \cup {On("AUTO", "face", "AUTO", "OFF", "SHADE"), On("AUTO", "night", "MACRO", "OFF", "AUTO"),
          On("OFF", "face", "AUTO", "ON", "AUTO"),
          On("USE_SCENE_MODE", "face", "MACRO", "ON", "AUTO"),
          On("USE_SCENE_MODE", "face", "CONTINUOUS_VIDEO", "ON_ALWAYS_FLASH", "AUTO"),
          On("USE_SCENE_MODE", "night", "MACRO", "ON", "AUTO"),
          On("USE_SCENE_MODE", "night", "OFF", "OFF", "OFF"),
          On("USE_SCENE_MODE", "fixed", "MACRO", "ON", "AUTO")}
=============================================================================
