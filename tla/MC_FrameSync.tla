---------------------------- MODULE MC_FrameSync ----------------------------
(* FrameSync on a small instance: a staging buffer of 9 units, buffer        *)
(* updates of 3 units, a texture update that needs alignment after them and  *)
(* a buffer update that can never fit.                                       *)
EXTENDS FrameSync

BufferUpdate(n) == [texture |-> FALSE, size |-> n, align |-> 1]
TextureUpdate(n, a) == [texture |-> TRUE, size |-> n, align |-> a]

MCUpdates == {BufferUpdate(3), BufferUpdate(10), TextureUpdate(2, 2)}
MCMeshData == {BufferUpdate(3)}
=============================================================================
