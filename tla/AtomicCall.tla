----------------------------- MODULE AtomicCall -----------------------------
(***************************************************************************)
(* What a caller of run_update may rely on: the script happens once and    *)
(* entirely, or not at all; a truth value that is returned says which; an  *)
(* exception does not, and the script may even happen after it.            *)
(***************************************************************************)
VARIABLES
    done, \* the script has happened
    told  \* "none", then "true", "false" or "raised"

Init == done = FALSE /\ told = "none"

Happen ==
    /\ ~done /\ told \in {"none", "raised"}
    /\ done' = TRUE
    /\ UNCHANGED told

Answer ==
    /\ told = "none"
    /\ \/ told' = "true" /\ done
       \/ told' = "false" /\ ~done
       \/ told' = "raised"
    /\ UNCHANGED done

Spec == Init /\ [][Happen \/ Answer]_<< done, told >>

=============================================================================
