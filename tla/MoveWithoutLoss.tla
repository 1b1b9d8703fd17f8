--------------------------- MODULE MoveWithoutLoss ---------------------------
(***************************************************************************)
(* What moving assets between the main library and the vault promises,     *)
(* without databases, journals, threads or crashes.  A move brings its     *)
(* items to the other side, looks whether they have come whole, and only   *)
(* then takes them from where they were.  It may be given up before, it    *)
(* may doubt at any time and look again, and it forgets itself last.       *)
(* Bytes go only where nobody needs them.                                  *)
(***************************************************************************)
CONSTANTS Items, Moves
VARIABLES
  at,      \* of each side and item: "absent", "present" or "condemned"
  stored,  \* the bytes that are whole, as <<side, item>>
  move     \* of each move: the side it goes to, its items and its phase

vars == <<at, stored, move>>

Sides == {"main", "vault"}
Other == [main |-> "vault", vault |-> "main"]
Places == {"absent", "present", "condemned"}
Phases == {"none", "copying", "arrived", "checked", "removed", "closing", "over"}
Move == [to : Sides, items : SUBSET Items, phase : Phases]
NoMove == [to |-> "main", items |-> {}, phase |-> "none"]

Present(s, i) == at[s][i] = "present"
Phase(m, p) == move[m].phase = p
\* The items of the moves that have looked and rely on what they saw.
ReliedOn(s, i) == \E m \in Moves : Phase(m, "checked") /\ move[m].to = s /\ i \in move[m].items
Engaged(i) == \E m \in Moves : Phase(m, "checked") /\ i \in move[m].items

Enter(m, p) == move' = [move EXCEPT ![m].phase = p]
Put(s, I, p) == at' = [at EXCEPT ![s] = [i \in Items |-> IF i \in I THEN p ELSE at[s][i]]]

Init ==
  /\ at = [s \in Sides |-> [i \in Items |-> "absent"]]
  /\ stored = {}
  /\ move = [m \in Moves |-> NoMove]

\* The bytes of a present item may go from the main library once the vault has
\* it too, from the vault never; and no move finds gone what it relies on.
Spare(s, i) ==
  /\ ~ReliedOn(s, i)
  /\ IF s = "vault" THEN ~Present("vault", i)
     ELSE at["main"][i] # "absent" => Present("vault", i)
Spared == \A s \in Sides, i \in Items : <<s, i>> \in stored \ stored' => Spare(s, i)

\* Bytes come and go.
Rewrite ==
  /\ stored' \in SUBSET (Sides \X Items)
  /\ Spared
  /\ UNCHANGED <<at, move>>

-----------------------------------------------------------------------------
(* Moves.                                                                  *)

Begin(m, s, I) ==
  /\ Phase(m, "none")
  /\ move' = [move EXCEPT ![m] = [to |-> s, items |-> I, phase |-> "copying"]]
  /\ UNCHANGED <<at, stored>>

Cancel(m) ==
  /\ Phase(m, "copying")
  /\ Enter(m, "over")
  /\ UNCHANGED <<at, stored>>

\* All items of a move at once.  The vault gets them with their bytes, also what
\* the main library deleted meanwhile; the main library gets what the vault has.
Arrive(m) ==
  LET s == move[m].to  I == move[m].items IN
  /\ Phase(m, "copying")
  /\ \A i \in I : at[s][i] = "absent" /\ ~Engaged(i)
  /\ Put(s, I, "present")
  /\ Enter(m, "arrived")
  /\ s = "main" => \A i \in I : Present("vault", i)
  /\ stored' = IF s = "vault" THEN stored \cup {s} \X I ELSE stored

Check(m) ==
  LET s == move[m].to IN
  /\ Phase(m, "arrived")
  /\ \A i \in move[m].items : Present(s, i) /\ <<s, i>> \in stored
  /\ Enter(m, "checked")
  /\ UNCHANGED <<at, stored>>

\* What a move has seen is forgotten, in a crash for one.
Doubt(m) ==
  /\ Phase(m, "checked") \/ Phase(m, "removed")
  /\ Enter(m, "arrived")
  /\ UNCHANGED <<at, stored>>

\* The source first hides what it gave ...
Release(m) ==
  LET s == Other[move[m].to] IN
  /\ Phase(m, "checked")
  /\ Put(s, {i \in move[m].items : at[s][i] # "absent"}, "condemned")
  /\ UNCHANGED <<stored, move>>

\* ... and then drops it.  The main library takes back what it was to delete
\* and now needs in its place.
Remove(m) ==
  LET s == Other[move[m].to]  I == move[m].items IN
  /\ Phase(m, "checked")
  /\ \E J \in SUBSET {i \in Items \ I : s = "main" /\ at["main"][i] = "condemned"} :
       at' = [at EXCEPT ![s] = [i \in Items |-> IF i \in I THEN "absent"
                                                ELSE IF i \in J THEN "present" ELSE at[s][i]]]
  /\ Enter(m, "removed")
  /\ stored' = IF s = "vault" THEN stored \ ({s} \X move[m].items) ELSE stored

Finish(m) ==
  /\ Phase(m, "removed")
  /\ Enter(m, "closing")
  /\ UNCHANGED <<at, stored>>

Close(m) ==
  /\ Phase(m, "closing")
  /\ Enter(m, "over")
  /\ UNCHANGED <<at, stored>>

-----------------------------------------------------------------------------
(* Everything else that happens to an item.                                *)

\* New items, which no move ever had.
Upload(s, I) ==
  /\ \A d \in Sides, i \in I : at[d][i] = "absent"
  /\ \A m \in Moves : I \cap move[m].items = {}
  /\ Put(s, I, "present")
  /\ stored' = stored \cup {s} \X I
  /\ UNCHANGED move

\* The main library deletes, unless it thinks better of it.
Condemn(i) ==
  /\ Present("main", i)
  /\ Put("main", {i}, "condemned")
  /\ UNCHANGED <<stored, move>>

Reprieve(i) ==
  /\ at["main"][i] = "condemned"
  /\ Put("main", {i}, "present")
  /\ UNCHANGED <<stored, move>>

Erase(i) ==
  /\ at["main"][i] = "condemned"
  /\ Put("main", {i}, "absent")
  /\ stored' = stored \ {<<"main", i>>}
  /\ UNCHANGED move

Next ==
  \/ Rewrite
  \/ \E m \in Moves : \/ \E s \in Sides, I \in SUBSET Items : Begin(m, s, I)
                      \/ Cancel(m) \/ Arrive(m) \/ Check(m) \/ Doubt(m)
                      \/ Release(m) \/ Remove(m) \/ Finish(m) \/ Close(m)
  \/ \E s \in Sides, I \in SUBSET Items : Upload(s, I)
  \/ \E i \in Items : Condemn(i) \/ Reprieve(i) \/ Erase(i)

Spec == Init /\ [][Next]_vars

\* Nothing is lost: what is present somewhere is whole where it is present.
NothingLost ==
  \A i \in Items : (\E s \in Sides : Present(s, i)) =>
    \E s \in Sides : at[s][i] # "absent" /\ <<s, i>> \in stored

TypeOK ==
  /\ at \in [Sides -> [Items -> Places]]
  /\ stored \subseteq Sides \X Items
  /\ move \in [Moves -> Move]

\* What every step keeps.
Inv ==
  /\ TypeOK
  /\ \A i \in Items : Present("vault", i) => <<"vault", i>> \in stored
  /\ \A i \in Items : at["main"][i] # "absent" => Present("vault", i) \/ <<"main", i>> \in stored
  /\ \A m \in Moves : Phase(m, "checked") => \A i \in move[m].items :
        at[move[m].to][i] = "absent" \/ <<move[m].to, i>> \in stored
=============================================================================
