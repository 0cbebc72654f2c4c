------------------------------- MODULE Theory -------------------------------
(***************************************************************************)
(* The base class of the theory plugins (src/Theory.h, src/Theory.cpp): a  *)
(* plugin reads the entries of the top level of the trail it has not seen. *)
(***************************************************************************)
EXTENDS Trail

VARIABLE cursor  \* [level, next]: how much of which level was seen

\* Theory::assigned(): the entries of the top level not seen before.
Unseen ==
  SubSeq(recent, 1 + (IF decision_level = cursor.level THEN cursor.next ELSE 0),
         Len(recent))

SeenAll == [level |-> decision_level, next |-> Len(recent)]

\* Variation: the cursor survives a backtrack to a level already seen.
ResetCursorKept == cursor

ResetCursor == [level |-> -1, next |-> 0]
=============================================================================
