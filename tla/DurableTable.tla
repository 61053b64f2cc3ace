---------------------------- MODULE DurableTable ----------------------------
(* What the page store of egtb.c promises of a table: the last value put is   *)
(* the one read; what has been synchronized survives a crash; a page changed  *)
(* since then may come back with any value it has had since, or be refused,   *)
(* but never with a value it never had.                                       *)
EXTENDS Naturals

CONSTANTS Values, Err

VARIABLES table,     \* the value of every page, or Err for one that cannot be read
          possible,  \* the values a crash may bring back
          asked,     \* how many changes have been asked for
          gaveUp     \* whether a write that failed has been given up

Pages == DOMAIN possible
Settled(p) == \E v \in possible[p] : possible[p] = {v}
After(p) == possible[p] \cup (IF Settled(p) THEN {} ELSE {Err})

Init == /\ table \in [Pages -> Values] /\ asked = 0 /\ gaveUp = FALSE
        /\ possible = [p \in Pages |-> {table[p]}]

(* A change of one page, or of how the file holds the table.                  *)
Put ==
  /\ asked' = asked + 1 /\ gaveUp' = gaveUp
  /\ \A p \in Pages :
       \/ table'[p] = table[p] /\ possible'[p] = possible[p]
       \/ /\ table'[p] \in Values /\ possible'[p] = possible[p] \cup {table'[p]}
          /\ \A q \in Pages \ {p} : table'[q] = table[q]

Sync == /\ table' = table /\ asked' = asked /\ gaveUp' = gaveUp
        /\ \A p \in Pages : possible'[p] \in {possible[p], {table[p]}}

(* A write that failed, and what waited for it, is given up.                  *)
Lose == /\ \A p \in Pages : table'[p] \in After(p) \cup {table[p]}
        /\ gaveUp' = TRUE /\ asked' = asked /\ possible' = possible

Crash == /\ \/ \A p \in Pages : table'[p] \in After(p)
            \/ /\ \E p \in Pages : ~Settled(p)
               /\ \A p \in Pages : table'[p] = Err
         /\ possible' = [p \in Pages |-> {table'[p]}]
         /\ gaveUp' = FALSE /\ asked' = asked

Next == DOMAIN possible' = Pages /\ (Put \/ Sync \/ Lose \/ Crash)
Spec == Init /\ [][Next]_<<table, possible, asked, gaveUp>>
=============================================================================
