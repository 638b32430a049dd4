---------------------------- MODULE MediaQueueWalk ----------------------------
(***************************************************************************)
(* The loops of FindNextIframe and MoveReadPoint as the code runs them,    *)
(* header by header.  MediaQueue describes their result as the first of a  *)
(* set of key frames; the property says that the two agree.  The loops are *)
(* recursive operators, so they are kept apart from the module that the    *)
(* proofs are about.                                                       *)
(***************************************************************************)
EXTENDS MediaQueue

\* Read the header at p, step over its frame, read the next header; stop at
\* the first key frame, fail on the first header that cannot be read.
RECURSIVE FindNextIframe(_)
FindNextIframe(p) ==
    LET q == Advance(p, ByteAt(p).len)
    IN  IF ~HeaderAt(p) \/ ~HeaderAt(q) THEN NULL
        ELSE IF ByteAt(q).kind = "I" THEN q ELSE FindNextIframe(q)

\* Mutant: the first key frame is taken, whether or not the write reaches it.
Mut_MoveReadPointLoop(p, len) == FindNextIframe(p)

\* Go on from key frame to key frame while the write would reach them.
RECURSIVE MoveReadPointLoop(_, _)
MoveReadPointLoop(p, len) ==
    LET q == FindNextIframe(p)
    IN  IF q # NULL /\ Endangered(q, len) THEN MoveReadPointLoop(q, len) ELSE q

(***************************************************************************)
(* For every reader that a write would overrun, walking the headers finds  *)
(* the key frame that MoveReadPoint describes, or fails when there is      *)
(* none.                                                                   *)
(***************************************************************************)
WalkAgrees ==
    \A s \in Slots, len \in FrameLens :
        enabled /\ Overrun(pRead[s], len) =>
            MoveReadPointLoop(pRead[s], len) = MoveReadPoint(pRead[s], len)
=============================================================================
