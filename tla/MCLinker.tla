------------------------------ MODULE MCLinker ------------------------------
EXTENDS Linker

(* A message that fits pipe and buffer, one that the kernel writes byte by *)
(* byte, and one longer than the buffer and than the pipe.                 *)
MCLengths == {1, 3, 5}
MCHandlers == {"h1", "h2"}
=============================================================================
