----------------------------- MODULE TaskQueue -----------------------------
(***************************************************************************)
(* What the game code relies on when it hands work to a worker thread: the *)
(* work accepted is served one piece at a time and in the order in which   *)
(* it was accepted; a piece may expire unserved when its turn comes.       *)
(***************************************************************************)
EXTENDS Sequences

CONSTANT Work           \* the pieces of work that may be queued

VARIABLES
    queue,              \* accepted and not served yet, oldest first
    serving             \* the piece being served, or none: <<>> or <<w>>

TypeOK ==
    /\ queue \in Seq(Work)
    /\ serving \in Seq(Work)

Init ==
    /\ queue = <<>>
    /\ serving = <<>>

Accept(w) ==
    /\ queue' = Append(queue, w)
    /\ UNCHANGED serving

Serve ==
    /\ serving = <<>>
    /\ queue # <<>>
    /\ serving' = <<Head(queue)>>
    /\ queue' = Tail(queue)

\* The piece at the head is thrown away unserved.
Discard ==
    /\ serving = <<>>
    /\ queue # <<>>
    /\ queue' = Tail(queue)
    /\ UNCHANGED serving

Finish ==
    /\ serving # <<>>
    /\ serving' = <<>>
    /\ UNCHANGED queue

Next == (\E w \in Work : Accept(w)) \/ Serve \/ Discard \/ Finish

Spec == Init /\ [][Next]_<<queue, serving>>
=============================================================================
