--------------------------------- MODULE Pairing ----------------------------------
(* Who may speak for one device: its pairing code and its token, the four things  *)
(* that write them (issue, redeem, revoke, and the device's edit form, which      *)
(* saves every column of the copy it loaded), and the calls machines make with    *)
(* what they hold (AgentDevice, credentials.py, authentication.py, views.py).     *)
(*                                                                              *)
(* Codes and tokens are fresh random strings: here the number of the issue and of *)
(* the redemption they come from, 0 for none. A digest stands for its token.      *)

EXTENDS Naturals

CONSTANTS
    Machines,       \* machines the codes are typed into
    Closed,         \* no form being saved, no call being served
    MaxCodes,       \* bound: codes an administrator issues
    MaxTokens,      \* bound: redemptions
    MaxFaults       \* bound: answers that are lost

ASSUME PairingAssumption ==
    /\ MaxCodes \in Nat \ {0}
    /\ MaxTokens \in Nat
    /\ MaxFaults \in Nat

Codes == 1..MaxCodes
Tokens == 1..MaxTokens

\* The columns of the device's row that this module is about.
Rows == [token : Tokens \cup {0}, code : Codes \cup {0}, revoked : BOOLEAN]

ASSUME ClosedAssumption == Closed \notin Rows

VARIABLES
    row,
    expired,    \* codes whose 72 hours are over
    form,       \* the copy an edit form is about to save
    answer,     \* the token on its way to a machine that has paired
    held,       \* the token each machine presents
    call,       \* the device a machine's call was authenticated as
    issued,     \* how many codes there have been
    origin,     \* the code each token was given for, 0 before it exists
    minted,     \* how many tokens there have been
    ended,      \* tokens that a redemption or a revoke put an end to (history)
    barred,     \* codes up to this one were issued before the last revoke (history)
    crossed,    \* the row was written since the form's copy was loaded (history)
    tainted,    \* the form saved such a copy (history)
    faults

vars == <<row, expired, form, answer, held, call, issued, origin, minted, ended, barred,
          crossed, tainted, faults>>

\* A new device is born holding a code: AgentDevice.save, _assign_pairing_code.
Born == [token |-> 0, code |-> 1, revoked |-> FALSE]

Init ==
    /\ row = Born
    /\ expired = {}
    /\ form = Closed
    /\ answer = [m \in Machines |-> 0]
    /\ held = [m \in Machines |-> 0]
    /\ call = [m \in Machines |-> Closed]
    /\ issued = 1
    /\ origin = [t \in Tokens |-> 0]
    /\ minted = 0
    /\ ended = {}
    /\ barred = 0
    /\ crossed = FALSE
    /\ tainted = FALSE
    /\ faults = 0

\* history: what a write of the row means to the form and to the tokens.
Written == crossed' = (form # Closed)
Ended == ended' = ended \cup ({row.token} \ {0})

-----------------------------------------------------------------------------------
(* The administrator.                                                            *)

\* The row as issue_pairing_code leaves it: the current token keeps working, a
\* revocation stands until the code is used, and an unused code is replaced.
Issued(c) == [row EXCEPT !.code = c]

IssueCode ==
    /\ issued < MaxCodes
    /\ issued' = issued + 1
    /\ row' = Issued(issued + 1)
    /\ Written
    /\ UNCHANGED <<expired, form, answer, held, call, origin, minted, ended, barred,
                   tainted, faults>>

\* pairing_code_expires_at goes by, whatever row or copy the code is on.
ExpireCode(c) ==
    /\ c = row.code \/ (form # Closed /\ c = form.code)
    /\ c \notin expired
    /\ expired' = expired \cup {c}
    /\ UNCHANGED <<row, form, answer, held, call, issued, origin, minted, ended, barred,
                   crossed, tainted, faults>>

\* mutant: a revoke leaves an unused code where it is.
RevokedToken == [row EXCEPT !.token = 0, !.revoked = TRUE]

\* The row as revoke leaves it.
Revoked == [token |-> 0, code |-> 0, revoked |-> TRUE]

Revoke ==
    /\ row' = Revoked
    /\ barred' = issued
    /\ Written
    /\ Ended
    /\ UNCHANGED <<expired, form, answer, held, call, issued, origin, minted, tainted,
                   faults>>

\* The edit form is posted: the view loads the device ...
OpenForm ==
    /\ form = Closed
    /\ form' = row
    /\ crossed' = FALSE
    /\ UNCHANGED <<row, expired, answer, held, call, issued, origin, minted, ended,
                   barred, tainted, faults>>

\* ... and saves it whole, the fields the form does not show included.
SaveForm ==
    /\ form # Closed
    /\ row' = form
    /\ form' = Closed
    /\ tainted' = (tainted \/ crossed)
    /\ UNCHANGED <<expired, answer, held, call, issued, origin, minted, ended, barred,
                   crossed, faults>>

\* The form does not validate.
AbandonForm ==
    /\ form # Closed
    /\ form' = Closed
    /\ UNCHANGED <<row, expired, answer, held, call, issued, origin, minted, ended,
                   barred, crossed, tainted, faults>>

-----------------------------------------------------------------------------------
(* The machines.                                                                 *)

\* mutant: the pairing leaves out a column.
RedeemedPartly(t) == [token |-> t, code |-> 0]

\* mutant: the code stays on the row until it expires.
RedeemedKept(t) == [row EXCEPT !.token = t, !.revoked = FALSE]

\* The row as redeem_pairing_code leaves it.
Redeemed(t) == [token |-> t, code |-> 0, revoked |-> FALSE]

\* A technician types a code at m, and the device that has it is paired. A code on no
\* row, or an expired one, is refused and changes nothing. The row is locked from the
\* look at its code to the commit, so the exchange is one step.
Redeem(m, c) ==
    /\ answer[m] = 0
    /\ row.code = c
    /\ c \notin expired
    /\ minted < MaxTokens
    /\ minted' = minted + 1
    /\ origin' = [origin EXCEPT ![minted + 1] = c]
    /\ row' = Redeemed(minted + 1)
    /\ answer' = [answer EXCEPT ![m] = minted + 1]
    /\ Written
    /\ Ended
    /\ UNCHANGED <<expired, form, held, call, issued, barred, tainted, faults>>

\* The only answer that ever carries the token arrives, or does not.
ReceiveToken(m) ==
    /\ answer[m] # 0
    /\ held' = [held EXCEPT ![m] = answer[m]]
    /\ answer' = [answer EXCEPT ![m] = 0]
    /\ UNCHANGED <<row, expired, form, call, issued, origin, minted, ended, barred,
                   crossed, tainted, faults>>

LoseAnswer(m) ==
    /\ answer[m] # 0
    /\ faults < MaxFaults
    /\ faults' = faults + 1
    /\ answer' = [answer EXCEPT ![m] = 0]
    /\ UNCHANGED <<row, expired, form, held, call, issued, origin, minted, ended, barred,
                   crossed, tainted>>

\* mutant: a device with an outstanding code is not considered paired.
AcceptedIfSettled(t) == row.token = t /\ ~row.revoked /\ row.code = 0

\* mutant: a token that authenticated once is remembered as good.
AcceptedFromCache(t) == t <= minted

\* active().get(token_hash=...)
Accepted(t) == row.token = t /\ ~row.revoked

\* m calls, and the device is loaded for the rest of the call.
Authenticate(m) ==
    /\ held[m] # 0
    /\ call[m] = Closed
    /\ Accepted(held[m])
    /\ call' = [call EXCEPT ![m] = row]
    /\ UNCHANGED <<row, expired, form, answer, held, issued, origin, minted, ended,
                   barred, crossed, tainted, faults>>

\* m calls and is answered 401: it stops, and asks for a new code.
Refuse(m) ==
    /\ held[m] # 0
    /\ call[m] = Closed
    /\ ~Accepted(held[m])
    /\ held' = [held EXCEPT ![m] = 0]
    /\ UNCHANGED <<row, expired, form, answer, call, issued, origin, minted, ended,
                   barred, crossed, tainted, faults>>

\* mutant: the call saves the device it was authenticated as.
SavedWhole(copy) == copy

\* What a call writes of the device, touch_last_seen and record_heartbeat, is by name
\* and none of it is here.
SavedByName(copy) == row

\* The call is served, whatever has become of the token meanwhile.
Serve(m) ==
    /\ call[m] # Closed
    /\ row' = SavedByName(call[m])
    /\ call' = [call EXCEPT ![m] = Closed]
    /\ UNCHANGED <<expired, form, answer, held, issued, origin, minted, ended, barred,
                   crossed, tainted, faults>>

-----------------------------------------------------------------------------------

Call(m) == Authenticate(m) \/ Refuse(m) \/ Serve(m)

Next ==
    \/ IssueCode \/ Revoke \/ OpenForm \/ SaveForm \/ AbandonForm
    \/ \E c \in Codes : ExpireCode(c) \/ \E m \in Machines : Redeem(m, c)
    \/ \E m \in Machines : ReceiveToken(m) \/ LoseAnswer(m) \/ Call(m)

Spec == Init /\ [][Next]_vars

\* A machine that has a token goes on calling, and its calls come to an end.
FairSpec == Spec /\ \A m \in Machines : WF_vars(Call(m))

-----------------------------------------------------------------------------------
(* Properties. The form's save of a crossed copy is the one thing that breaks the *)
(* first three; the run with RevokedStaysOut shows it doing so.                   *)

TypeOK ==
    /\ row \in Rows
    /\ expired \in SUBSET Codes
    /\ form \in Rows \cup {Closed}
    /\ answer \in [Machines -> Tokens \cup {0}]
    /\ held \in [Machines -> Tokens \cup {0}]
    /\ call \in [Machines -> Rows \cup {Closed}]
    /\ issued \in Codes
    /\ origin \in [Tokens -> Codes \cup {0}]
    /\ minted \in 0..MaxTokens
    /\ ended \in SUBSET Tokens
    /\ barred \in 0..issued
    /\ crossed \in BOOLEAN
    /\ tainted \in BOOLEAN
    /\ faults \in 0..MaxFaults

\* A code is worth one token, however often, on however many machines and between
\* whatever reissues and revokes it is typed.
CodeIsSingleUse ==
    ~tainted => \A s, t \in 1..minted : origin[s] = origin[t] => s = t

\* A token that was replaced or revoked never authenticates again: no save from a copy
\* loaded earlier, by a call or by anything else, brings it back.
EndedStaysEnded == ~tainted => row.token \notin ended

\* After a revoke, nothing but a code issued after it lets a machine back in.
RevokeNeedsNewCode ==
    ~tainted =>
        /\ row.token # 0 => origin[row.token] > barred
        /\ row.code # 0 => row.code > barred

\* Issuing a code, or letting it expire unused, leaves no gap in the data: a device that
\* reads as paired has a machine that can speak for it, or has its token on the way,
\* as long as no answer was lost.
PairedIsHeld ==
    ~tainted /\ faults = 0 /\ row.token # 0 =>
        \E m \in Machines : row.token \in {held[m], answer[m]}

\* A machine that was cut off, by a revoke or by another machine's pairing, comes to know
\* it and stops.
CutOffIsLearned ==
    \A m \in Machines :
        held[m] # 0 /\ held[m] \in ended ~> held[m] = 0 \/ held[m] \notin ended \/ tainted

\* What revoke says of itself, without the exemption.
RevokedStaysOut == row.token # 0 => origin[row.token] > barred
====
