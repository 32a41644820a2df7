-------------------------- MODULE MCConversations ---------------------------
(***************************************************************************)
(* Conversations with two conversations of an earlier launch.  Which is    *)
(* which makes no difference, and once one of the flags is up the          *)
(* properties that name it say nothing more.                               *)
(***************************************************************************)
EXTENDS Conversations, TLC

CONSTANTS c1, c2, c3

Interchangeable == Permutations({c1, c2})

=============================================================================
