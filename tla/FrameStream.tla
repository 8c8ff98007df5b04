---------------------------- MODULE FrameStream ----------------------------
(***************************************************************************)
(* What a session may rely on: one direction of a connection is a queue of *)
(* frames. A frame arrives whole and unchanged, after all frames put       *)
(* before it, and a connection that breaks loses a suffix of the queue,    *)
(* never a frame in its middle and never half of one.                      *)
(***************************************************************************)
EXTENDS Naturals, Sequences, SequencesExt

CONSTANT Frames          (* everything that can be sent *)

VARIABLES stream,        (* frames put and not taken *)
          heard,         (* the frame taken last, <<>> before the first *)
          open           (* nothing has broken yet *)

vars == <<stream, heard, open>>

Init == stream = <<>> /\ heard = <<>> /\ open = TRUE

Put == /\ open
       /\ stream' # <<>> /\ Last(stream') \in Frames
       /\ stream' = Append(stream, Last(stream'))
       /\ UNCHANGED <<heard, open>>

Take == /\ stream # <<>>
        /\ stream' = Tail(stream)
        /\ heard' = Head(stream)
        /\ UNCHANGED open

Break == /\ open' = FALSE
         /\ \E n \in 0..Len(stream) : stream' = SubSeq(stream, 1, n)
         /\ UNCHANGED heard

Next == Put \/ Take \/ Break

Spec == Init /\ [][Next]_vars
=============================================================================
