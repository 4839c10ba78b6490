----------------------------- MODULE FutBufferMC -----------------------------
(* Two threads that record two events and one, and three threads with one  *)
(* event each, in a buffer that less than all of them fill.                *)
EXTENDS FutBuffer

Sizes == {<< <<2, 1>>, <<2>>, << >> >>,
          << <<2>>, <<2>>, <<1>> >>}
=============================================================================
