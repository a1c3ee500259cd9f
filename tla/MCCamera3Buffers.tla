------------------------- MODULE MCCamera3Buffers -------------------------
(* A preview stream with room for two buffers and one for a still picture. *)
EXTENDS Camera3Buffers

MCStreams == {"preview", "still"}
MCMaxBuffers == [s \in MCStreams |-> IF s = "preview" THEN 2 ELSE 1]

\* The picture comes and goes, the preview is made anew.
MCChanges == {<<{"preview"}, {"still"}>>, <<{"preview", "still"}, {}>>,
              <<{"preview", "still"}, {"preview"}>>}
=============================================================================
