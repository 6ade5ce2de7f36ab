------------------------------ MODULE MapLoop ------------------------------
(***************************************************************************)
(* A for loop over the keys of a map whose body changes the map            *)
(* (vm/core.c, primMapIterate() and primMapKeyIteratorValue(), which the   *)
(* loop calls one after the other before each run of the body).            *)
(*                                                                         *)
(* The iterator is an index into the entries.  Before the loop any         *)
(* operation may be applied to the map; then, while it runs, a few.        *)
(***************************************************************************)
EXTENDS HashMap

CONSTANT MaxBody  \* bound: operations during the loop

ASSUME MapLoopAssumption == MaxBody \in Nat

VARIABLES
  loop,     \* "before", "running" or "over"
  iterator, \* the index given last, or NoIterator
  body,     \* operations during the loop so far
  resized,  \* has one of them changed the capacity?
  visited,  \* the keys given, but those removed since
  stayed,   \* the keys that have been in the map since the loop began
  again     \* was the key given last one of those given before?

loopVars == <<loop, iterator, body, resized, visited, stayed, again>>
allVars == <<mapVars, loopVars>>

NoIterator == -1

LoopInit ==
  /\ MapInit
  /\ loop = "before" /\ iterator = NoIterator /\ body = 0 /\ resized = FALSE
  /\ visited = {} /\ stayed = {} /\ again = FALSE

KeysInUse == {entries[i].key : i \in Used(entries, capacity)}

\* Bound: the values of a map that is looped over are one and the same.
OneValue == \A i, j \in Used(entries, capacity) : entries[i].value = entries[j].value

StartLoop ==
  /\ loop = "before" /\ ~stuck /\ OneValue
  /\ loop' = "running"
  /\ stayed' = KeysInUse
  /\ UNCHANGED <<mapVars, iterator, body, resized, visited, again>>

\* Fault: the index is not stepped past the entry given last.
FirstFromHere == IF iterator = NoIterator THEN 0 ELSE iterator

\* Fault: the first entry is passed over.
FirstSkipping == IF iterator = NoIterator THEN 1 ELSE iterator + 1

FirstCandidate == IF iterator = NoIterator THEN 0 ELSE iterator + 1

Candidates == {i \in Used(entries, capacity) : i >= FirstCandidate}

\* primMapIterate() when there is another entry in use.  An iterator beyond the end, after
\* the table has shrunk, ends the loop.
Iterate ==
  /\ loop = "running" /\ ~stuck /\ iterator < capacity /\ Candidates # {}
  /\ \E i \in Candidates :
       /\ \A j \in Candidates : i <= j
       /\ iterator' = i
       /\ again' = (entries[i].key \in visited)
       /\ visited' = visited \cup {entries[i].key}
  /\ UNCHANGED <<mapVars, loop, body, resized, stayed>>

EndLoop ==
  /\ loop = "running" /\ ~stuck /\ (iterator >= capacity \/ Candidates = {})
  /\ loop' = "over"
  /\ UNCHANGED <<mapVars, iterator, body, resized, visited, stayed, again>>

\* The body applies an operation to the map.
Body ==
  /\ loop = "running" /\ iterator # NoIterator /\ body < MaxBody
  /\ MapNext
  /\ OneValue'
  /\ body' = body + 1
  /\ resized' = (resized \/ capacity' # capacity)
  /\ visited' = visited \cap KeysInUse'
  /\ stayed' = stayed \cap KeysInUse'
  /\ again' = FALSE
  /\ UNCHANGED <<loop, iterator>>

Before == loop = "before" /\ MapNext /\ UNCHANGED loopVars

LoopNext == StartLoop \/ Iterate \/ EndLoop \/ Body \/ Before

LoopSpec == LoopInit /\ [][LoopNext]_allVars

-----------------------------------------------------------------------------
(* Properties *)

\* As long as the table keeps its size, no key is given twice, whatever the body adds and
\* removes (a key that is removed and added anew may be).
NoKeyTwice == again => resized

\* As long as the table keeps its size, a loop that has come to its end has given every key
\* that was in the map all the time.
EveryKeyGiven == loop = "over" /\ ~resized => stayed \subseteq visited

\* The loop gives the keys, unless the table is resized under it.
LoopGivesTheKeys == NoKeyTwice /\ EveryKeyGiven
=============================================================================
