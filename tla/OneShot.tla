------------------------------- MODULE OneShot -------------------------------
(***************************************************************************)
(* What a credential that may be used once promises: it is offered, it is  *)
(* redeemed by one holder or it is withdrawn, and after that it is spent   *)
(* for good.  OAuth implements it with its authorization codes, and        *)
(* Tokenization with its single-use tokens.                                *)
(***************************************************************************)
CONSTANTS Cells, Prizes, NoPrize

VARIABLES
    phase,  \* "new", "live" or "spent", for each credential
    prize   \* what it was redeemed for

cells == <<phase, prize>>

OneShotTypeOK == /\ phase \in [Cells -> {"new", "live", "spent"}]
                 /\ prize \in [Cells -> Prizes \cup {NoPrize}]

OneShotInit == /\ phase = [c \in Cells |-> "new"]
               /\ prize = [c \in Cells |-> NoPrize]

Offered(c) == phase[c] = "new" /\ phase'[c] = "live" /\ prize'[c] = prize[c]

Redeemed(c) == phase[c] = "live" /\ phase'[c] = "spent" /\ prize'[c] \in Prizes

(* Outlived, refused or given up. *)
Withdrawn(c) == phase[c] = "live" /\ phase'[c] = "spent" /\ prize'[c] = prize[c]

Untouched(c) == phase'[c] = phase[c] /\ prize'[c] = prize[c]

(* One operation may withdraw several others. *)
OneShotNext ==
    /\ phase' \in [Cells -> {"new", "live", "spent"}]
    /\ prize' \in [Cells -> Prizes \cup {NoPrize}]
    /\ \A c \in Cells : Offered(c) \/ Redeemed(c) \/ Withdrawn(c) \/ Untouched(c)

OneShotSpec == OneShotInit /\ [][OneShotNext]_cells

=============================================================================
