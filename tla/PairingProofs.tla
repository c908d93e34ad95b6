------------------------------- MODULE PairingProofs -------------------------------
(* What pairing keeps for every number of machines, codes and redemptions: the    *)
(* safety properties of Pairing, from one inductive invariant. Window ties the     *)
(* form's copy to the row while nothing has overtaken it; Copies says what the      *)
(* machines can hold; TokenFacts and CodeFacts say what the row's token and code    *)
(* are worth, and stand until a form saves an overtaken copy.                       *)

EXTENDS Pairing, TLAPS

USE PairingAssumption, ClosedAssumption DEF PairingAssumption, Codes, Tokens

-----------------------------------------------------------------------------------
(* The inductive invariant.                                                      *)

\* A copy nothing was written over since is the row.
Window == form # Closed /\ ~crossed => form = row

\* A machine holds nothing that was not minted, and what is on its way to it is newer
\* than what it holds.
Copies ==
    \A m \in Machines :
        /\ answer[m] <= minted /\ held[m] <= minted
        /\ answer[m] # 0 => held[m] < answer[m]

\* The row's token is the last one minted, is live, and was given for a code issued
\* since the last revoke.
TokenFacts ==
    /\ row.token \in {0, minted}
    /\ row.token # 0 => ~row.revoked /\ origin[row.token] > barred
    /\ \A t \in ended : t <= minted
    /\ row.token \notin ended

\* The row's code was issued since the last revoke and no token was given for it, and
\* no two tokens were given for one code.
CodeFacts ==
    /\ row.code <= issued
    /\ row.code # 0 => row.code > barred
    /\ \A t \in 1..minted : origin[t] # row.code /\ origin[t] \in 1..issued
    /\ CodeIsSingleUse

Inv ==
    /\ TypeOK
    /\ Window
    /\ Copies
    /\ ~tainted => TokenFacts /\ CodeFacts
    /\ PairedIsHeld

\* The steps that write none of what the row's token and code are judged by.
Quiet ==
    /\ UNCHANGED <<row, issued, origin, minted, ended, barred, tainted>>

LEMMA QuietSteps ==
  /\ OpenForm \/ AbandonForm \/ (\E c \in Codes : ExpireCode(c)) => Quiet
  /\ \A m \in Machines : ReceiveToken(m) \/ LoseAnswer(m) \/ Call(m) => Quiet
BY DEF Quiet, OpenForm, AbandonForm, ExpireCode, ReceiveToken, LoseAnswer, Call,
       Authenticate, Refuse, Serve, SavedByName

-----------------------------------------------------------------------------------
(* Types.                                                                        *)

LEMMA RowValues ==
  ASSUME row \in Rows
  PROVE  /\ Born \in Rows /\ Revoked \in Rows
         /\ \A t \in Tokens : Redeemed(t) \in Rows
         /\ \A c \in Codes :
               /\ Issued(c) \in Rows
               /\ Issued(c).token = row.token /\ Issued(c).code = c
               /\ Issued(c).revoked = row.revoked
         /\ row.token \in Tokens \cup {0}
         /\ row.code \in Codes \cup {0}
BY DEF Rows, Born, Revoked, Redeemed, Issued

LEMMA TypeInit == Init => TypeOK
<1>1. Born \in Rows
  BY DEF Born, Rows
<1>2. ASSUME Init PROVE row \in Rows /\ form = Closed
  BY <1>1, <1>2 DEF Init
<1>3. ASSUME Init
      PROVE  /\ answer \in [Machines -> Tokens \cup {0}]
             /\ held \in [Machines -> Tokens \cup {0}]
             /\ call \in [Machines -> Rows \cup {Closed}]
             /\ origin \in [Tokens -> Codes \cup {0}]
  BY <1>3 DEF Init
<1>4. ASSUME Init
      PROVE  /\ expired \in SUBSET Codes /\ ended \in SUBSET Tokens
             /\ issued \in Codes /\ minted \in 0..MaxTokens /\ barred \in 0..issued
             /\ faults \in 0..MaxFaults
  BY <1>4 DEF Init
<1>5. ASSUME Init PROVE crossed \in BOOLEAN /\ tainted \in BOOLEAN
  BY <1>5 DEF Init
<1>. QED BY <1>2, <1>3, <1>4, <1>5 DEF TypeOK

LEMMA TypeStep == TypeOK /\ [Next]_vars => TypeOK'
<1>. SUFFICES ASSUME TypeOK, [Next]_vars PROVE TypeOK'
  OBVIOUS
<1>. USE DEF TypeOK
<1>1. CASE IssueCode
  <2>1. issued + 1 \in Codes
    BY <1>1 DEF IssueCode
  <2>2. row' \in Rows
    BY <1>1, <2>1, RowValues DEF IssueCode
  <2>. QED BY <1>1, <2>1, <2>2 DEF IssueCode, Written
<1>2. CASE Revoke
  <2>1. row' \in Rows /\ ended' \in SUBSET Tokens
    BY <1>2, RowValues DEF Revoke, Ended
  <2>. QED BY <1>2, <2>1 DEF Revoke, Written
<1>3. CASE OpenForm \/ SaveForm \/ AbandonForm
  BY <1>3 DEF OpenForm, SaveForm, AbandonForm
<1>4. ASSUME NEW c \in Codes, ExpireCode(c) PROVE TypeOK'
  BY <1>4 DEF ExpireCode
<1>5. ASSUME NEW c \in Codes, NEW m \in Machines, Redeem(m, c) PROVE TypeOK'
  <2>1. minted + 1 \in Tokens
    BY <1>5 DEF Redeem
  <2>2. row' \in Rows
    BY <1>5, <2>1, RowValues DEF Redeem
  <2>3. ended' \in SUBSET Tokens
    BY <1>5, RowValues DEF Redeem, Ended
  <2>4. /\ origin' \in [Tokens -> Codes \cup {0}]
        /\ answer' \in [Machines -> Tokens \cup {0}]
        /\ minted' \in 0..MaxTokens
    BY <1>5, <2>1 DEF Redeem
  <2>. QED BY <1>5, <2>2, <2>3, <2>4 DEF Redeem, Written
<1>6. ASSUME NEW m \in Machines, ReceiveToken(m) \/ LoseAnswer(m) PROVE TypeOK'
  <2>1. answer' \in [Machines -> Tokens \cup {0}]
    BY <1>6 DEF ReceiveToken, LoseAnswer
  <2>2. held' \in [Machines -> Tokens \cup {0}]
    BY <1>6 DEF ReceiveToken, LoseAnswer
  <2>3. faults' \in 0..MaxFaults
    BY <1>6 DEF ReceiveToken, LoseAnswer
  <2>. QED BY <1>6, <2>1, <2>2, <2>3 DEF ReceiveToken, LoseAnswer
<1>7. ASSUME NEW m \in Machines, Call(m) PROVE TypeOK'
  BY <1>7 DEF Call, Authenticate, Refuse, Serve, SavedByName
<1>8. CASE UNCHANGED vars
  BY <1>8 DEF vars
<1>. QED
  BY <1>1, <1>2, <1>3, <1>4, <1>5, <1>6, <1>7, <1>8 DEF Next

-----------------------------------------------------------------------------------
(* The form's copy, and the machines'.                                           *)

LEMMA WindowStep == TypeOK /\ Window /\ [Next]_vars => Window'
<1>. SUFFICES ASSUME TypeOK, Window, [Next]_vars PROVE Window'
  OBVIOUS
<1>. USE DEF TypeOK, Window
<1>1. CASE IssueCode \/ Revoke
  BY <1>1 DEF IssueCode, Revoke, Written
<1>2. CASE OpenForm \/ SaveForm \/ AbandonForm
  BY <1>2 DEF OpenForm, SaveForm, AbandonForm
<1>3. ASSUME NEW c \in Codes, NEW m \in Machines, Redeem(m, c) PROVE Window'
  BY <1>3 DEF Redeem, Written
<1>4. ASSUME NEW c \in Codes, NEW m \in Machines,
             ExpireCode(c) \/ ReceiveToken(m) \/ LoseAnswer(m) \/ Call(m)
      PROVE  Window'
  BY <1>4 DEF ExpireCode, ReceiveToken, LoseAnswer, Call, Authenticate, Refuse, Serve,
              SavedByName
<1>5. ASSUME NEW c \in Codes, ExpireCode(c) PROVE Window'
  BY <1>5 DEF ExpireCode
<1>6. CASE UNCHANGED vars
  BY <1>6 DEF vars
<1>. QED
  BY <1>1, <1>2, <1>3, <1>4, <1>5, <1>6 DEF Next

LEMMA CopiesStep == TypeOK /\ Copies /\ [Next]_vars => Copies'
<1>. SUFFICES ASSUME TypeOK, Copies, [Next]_vars PROVE Copies'
  OBVIOUS
<1>. USE DEF TypeOK, Copies
<1>1. CASE UNCHANGED <<answer, held, minted>>
  BY <1>1
<1>2. ASSUME NEW c \in Codes, NEW m \in Machines, Redeem(m, c) PROVE Copies'
  BY <1>2 DEF Redeem
<1>3. ASSUME NEW m \in Machines, ReceiveToken(m) \/ LoseAnswer(m) PROVE Copies'
  BY <1>3 DEF ReceiveToken, LoseAnswer
<1>4. ASSUME NEW m \in Machines, Refuse(m) PROVE Copies'
  BY <1>4 DEF Refuse
<1>. QED
  BY <1>1, <1>2, <1>3, <1>4
  DEF Next, vars, IssueCode, Revoke, OpenForm, SaveForm, AbandonForm, ExpireCode, Call,
      Authenticate, Serve

-----------------------------------------------------------------------------------
(* What the row's token and code are worth.                                      *)

\* A save that does not taint writes the row as it is.
LEMMA UntaintedSave ==
  ASSUME TypeOK, Window, SaveForm, ~tainted'
  PROVE  Quiet
<1>1. ~tainted /\ ~crossed
  BY DEF SaveForm
<1>2. row' = row
  BY <1>1 DEF Window, SaveForm
<1>3. tainted' = tainted
  BY <1>1 DEF SaveForm, TypeOK
<1>. QED BY <1>2, <1>3 DEF SaveForm, Quiet

LEMMA FactsStep ==
  ASSUME TypeOK, [Next]_vars, ~tainted', TokenFacts, CodeFacts, Window
  PROVE  TokenFacts' /\ CodeFacts'
<1>. USE DEF TypeOK, TokenFacts, CodeFacts, CodeIsSingleUse
<1>1. ASSUME Quiet PROVE TokenFacts' /\ CodeFacts'
  BY <1>1 DEF Quiet
<1>2. CASE IssueCode
  <2>1. row'.token = row.token /\ row'.code = issued + 1 /\ row'.revoked = row.revoked
    BY <1>2, RowValues DEF IssueCode
  <2>2. TokenFacts'
    BY <1>2, <2>1, RowValues DEF IssueCode
  <2>3. CodeFacts'
    BY <1>2, <2>1, RowValues DEF IssueCode
  <2>. QED BY <2>2, <2>3
<1>3. CASE Revoke
  <2>1. row'.token = 0 /\ row'.code = 0
    BY <1>3 DEF Revoke, Revoked
  <2>2. TokenFacts'
    BY <1>3, <2>1, RowValues DEF Revoke, Ended
  <2>3. CodeFacts'
    BY <1>3, <2>1, RowValues DEF Revoke
  <2>. QED BY <2>2, <2>3
<1>4. ASSUME NEW c \in Codes, NEW m \in Machines, Redeem(m, c)
      PROVE  TokenFacts' /\ CodeFacts'
  <2>1. row'.token = minted + 1 /\ row'.code = 0 /\ row'.revoked = FALSE
    BY <1>4 DEF Redeem, Redeemed
  <2>2. minted + 1 \in Tokens /\ minted' = minted + 1 /\ row.code = c
    BY <1>4 DEF Redeem
  <2>3. origin'[minted + 1] = c /\ \A t \in 1..minted : origin'[t] = origin[t]
    BY <1>4, <2>2 DEF Redeem
  <2>4. TokenFacts'
    BY <1>4, <2>1, <2>2, <2>3, RowValues DEF Redeem, Ended
  <2>5. CodeFacts'
    BY <1>4, <2>1, <2>2, <2>3, RowValues DEF Redeem
  <2>. QED BY <2>4, <2>5
<1>5. CASE SaveForm
  BY <1>5, <1>1, UntaintedSave
<1>6. CASE UNCHANGED vars
  BY <1>6, <1>1 DEF vars, Quiet
<1>. QED
  BY <1>1, <1>2, <1>3, <1>4, <1>5, <1>6, QuietSteps DEF Next

-----------------------------------------------------------------------------------
(* Who holds the row's token.                                                    *)

LEMMA HeldStep ==
  ASSUME TypeOK, [Next]_vars, PairedIsHeld, Window, Copies,
         ~tainted => TokenFacts
  PROVE  PairedIsHeld'
<1>. SUFFICES ASSUME ~tainted', faults' = 0, row'.token # 0
     PROVE  \E m \in Machines : row'.token \in {held'[m], answer'[m]}
  BY DEF PairedIsHeld
<1>. DEFINE Holder(m) == row.token \in {held[m], answer[m]}
<1>1. ASSUME ~tainted, faults = 0, row.token # 0
      PROVE  \E m \in Machines : Holder(m)
  BY <1>1 DEF PairedIsHeld
<1>2. ASSUME ~tainted, faults = 0, row'.token = row.token, UNCHANGED <<held, answer>>
      PROVE  \E m \in Machines : row'.token \in {held'[m], answer'[m]}
  BY <1>1, <1>2
<1>3. CASE IssueCode
  <2>1. row'.token = row.token
    BY <1>3, RowValues DEF IssueCode, TypeOK
  <2>. QED BY <1>2, <1>3, <2>1 DEF IssueCode
<1>4. CASE Revoke
  BY <1>4 DEF Revoke, Revoked
<1>5. CASE OpenForm \/ AbandonForm
  BY <1>2, <1>5 DEF OpenForm, AbandonForm
<1>6. CASE SaveForm
  BY <1>2, <1>6, UntaintedSave DEF SaveForm, Quiet
<1>7. ASSUME NEW c \in Codes, ExpireCode(c)
      PROVE  \E m \in Machines : row'.token \in {held'[m], answer'[m]}
  BY <1>2, <1>7 DEF ExpireCode
<1>8. ASSUME NEW c \in Codes, NEW m \in Machines, Redeem(m, c)
      PROVE  row'.token \in {held'[m], answer'[m]}
  BY <1>8 DEF Redeem, Redeemed, TypeOK
<1>9. ASSUME NEW m \in Machines, ReceiveToken(m)
      PROVE  \E n \in Machines : row'.token \in {held'[n], answer'[n]}
  <2>1. PICK n \in Machines : Holder(n)
    BY <1>1, <1>9 DEF ReceiveToken
  <2>2. CASE n = m
    \* What m held is older than what it receives, and the row's token is the newest.
    <3>1. row.token = answer[m]
      BY <1>9, <2>1, <2>2 DEF ReceiveToken, Copies, TokenFacts, TypeOK
    <3>. QED BY <1>9, <3>1 DEF ReceiveToken, TypeOK
  <2>3. CASE n # m
    <3>1. held'[n] = held[n] /\ answer'[n] = answer[n]
      BY <1>9, <2>3 DEF ReceiveToken, TypeOK
    <3>. QED BY <1>9, <2>1, <3>1 DEF ReceiveToken
  <2>. QED BY <2>2, <2>3
<1>10. ASSUME NEW m \in Machines, LoseAnswer(m) PROVE FALSE
  BY <1>10 DEF LoseAnswer, TypeOK
<1>11. ASSUME NEW m \in Machines, Refuse(m)
       PROVE  \E n \in Machines : row'.token \in {held'[n], answer'[n]}
  <2>1. PICK n \in Machines : Holder(n)
    BY <1>1, <1>11 DEF Refuse
  \* What is refused is not the row's token, which is live.
  <2>2. held[m] # row.token
    BY <1>11 DEF Refuse, Accepted, TokenFacts
  <2>3. held'[n] = held[n] \/ (n = m /\ answer[n] = row.token)
    BY <1>11, <2>1, <2>2 DEF Refuse, TypeOK
  <2>. QED BY <1>11, <2>1, <2>3 DEF Refuse
<1>12. ASSUME NEW m \in Machines, Authenticate(m) \/ Serve(m)
       PROVE  \E n \in Machines : row'.token \in {held'[n], answer'[n]}
  BY <1>2, <1>12 DEF Authenticate, Serve, SavedByName
<1>13. CASE UNCHANGED vars
  BY <1>2, <1>13 DEF vars
<1>. QED
  BY <1>3, <1>4, <1>5, <1>6, <1>7, <1>8, <1>9, <1>10, <1>11, <1>12, <1>13
  DEF Next, Call

-----------------------------------------------------------------------------------
(* The theorems.                                                                 *)

\* The invariant holds at first and every step keeps it.
LEMMA InvAlways == Spec => []Inv
<1>1. Init => Inv
  <2>. SUFFICES ASSUME Init PROVE Inv
    OBVIOUS
  <2>1. TypeOK
    BY TypeInit
  <2>2. row.token = 0 /\ row.code = 1 /\ minted = 0 /\ ended = {} /\ issued = 1
        /\ barred = 0 /\ form = Closed
    BY DEF Init, Born
  <2>3. Copies
    <3>1. answer = [m \in Machines |-> 0] /\ held = [m \in Machines |-> 0]
      BY DEF Init
    <3>2. ASSUME NEW m \in Machines
          PROVE  answer[m] = 0 /\ held[m] = 0 /\ answer[m] <= minted /\ held[m] <= minted
      BY <2>2, <3>1
    <3>. QED BY <3>2 DEF Copies
  <2>4. TokenFacts
    BY <2>2 DEF TokenFacts
  <2>5. CodeFacts
    BY <2>2 DEF CodeFacts, CodeIsSingleUse
  <2>. QED BY <2>1, <2>2, <2>3, <2>4, <2>5 DEF Inv, Window, PairedIsHeld
<1>2. Inv /\ [Next]_vars => Inv'
  <2>. SUFFICES ASSUME Inv, [Next]_vars PROVE Inv'
    OBVIOUS
  <2>1. TypeOK' /\ Window' /\ Copies' /\ PairedIsHeld'
    BY TypeStep, WindowStep, CopiesStep, HeldStep DEF Inv
  <2>2. ASSUME ~tainted' PROVE ~tainted
    BY <2>2
    DEF Inv, TypeOK, Next, vars, IssueCode, Revoke, OpenForm, SaveForm, AbandonForm,
        ExpireCode, Redeem, ReceiveToken, LoseAnswer, Call, Authenticate, Refuse, Serve
  <2>3. ASSUME ~tainted' PROVE TokenFacts' /\ CodeFacts'
    BY <2>2, <2>3, FactsStep DEF Inv
  <2>. QED BY <2>1, <2>3 DEF Inv
<1>. QED BY <1>1, <1>2, PTL DEF Spec

\* Pairing's state is well typed in every reachable state.
THEOREM PairingTypeCorrect == Spec => []TypeOK
<1>1. Inv => TypeOK
  BY DEF Inv
<1>. QED BY <1>1, InvAlways, PTL

\* However many machines race, and whatever reissues and revokes come between, one code
\* is redeemed for one token: redeem_pairing_code.
THEOREM SingleUse == Spec => []CodeIsSingleUse
<1>1. Inv => CodeIsSingleUse
  BY DEF Inv, CodeFacts, CodeIsSingleUse
<1>. QED BY <1>1, InvAlways, PTL

\* A token that a redemption replaced or a revoke destroyed stays dead: authenticate_token
\* never finds it again.
THEOREM DeadForGood == Spec => []EndedStaysEnded
<1>1. Inv => EndedStaysEnded
  BY DEF Inv, TokenFacts, EndedStaysEnded
<1>. QED BY <1>1, InvAlways, PTL

\* A revoked machine comes back with a code issued after the revoke and in no other way.
THEOREM NoWayBack == Spec => []RevokeNeedsNewCode
<1>1. Inv => RevokeNeedsNewCode
  BY DEF Inv, TokenFacts, CodeFacts, RevokeNeedsNewCode
<1>. QED BY <1>1, InvAlways, PTL

\* A device that reads as paired has a machine that speaks for it, unless an answer was
\* lost: issuing a code leaves no gap.
THEOREM NoGap == Spec => []PairedIsHeld
<1>1. Inv => PairedIsHeld
  BY DEF Inv
<1>. QED BY <1>1, InvAlways, PTL

-----------------------------------------------------------------------------------
(* One machine to a token.                                                       *)

\* Two machines never hold, or are never on the way to hold, the same token: whoever
\* redeems, in whatever order the answers arrive, and even when a form brings an old
\* token back to the row, at most one machine speaks for the device.
OneSpeaks ==
    \A m, n \in Machines : m # n =>
        /\ held[m] # 0 => held[m] \notin {held[n], answer[n]}
        /\ answer[m] # 0 => answer[m] # answer[n]

\* A redemption mints a token that nobody has; otherwise tokens move from a machine's
\* answer to the same machine.
LEMMA OneSpeaksStep == TypeOK /\ Copies /\ OneSpeaks /\ [Next]_vars => OneSpeaks'
<1>. SUFFICES ASSUME TypeOK, Copies, OneSpeaks, [Next]_vars PROVE OneSpeaks'
  OBVIOUS
<1>1. ASSUME NEW m \in Machines, NEW c \in Codes, Redeem(m, c) PROVE OneSpeaks'
  <2>1. /\ answer' = [answer EXCEPT ![m] = minted + 1] /\ held' = held /\ answer[m] = 0
    BY <1>1 DEF Redeem
  <2>2. \A n \in Machines : /\ answer[n] \in Nat /\ held[n] \in Nat
                            /\ answer[n] # minted + 1 /\ held[n] # minted + 1
    BY DEF Copies, TypeOK
  <2>3. minted + 1 # 0
    BY DEF TypeOK
  <2>. QED BY <2>1, <2>2, <2>3 DEF OneSpeaks, TypeOK
<1>2. ASSUME NEW m \in Machines, ReceiveToken(m) PROVE OneSpeaks'
  BY <1>2 DEF ReceiveToken, OneSpeaks, TypeOK
<1>3. ASSUME NEW m \in Machines, LoseAnswer(m) \/ Refuse(m) PROVE OneSpeaks'
  BY <1>3 DEF LoseAnswer, Refuse, OneSpeaks, TypeOK
<1>4. CASE UNCHANGED <<answer, held>>
  BY <1>4 DEF OneSpeaks
<1>. QED
  BY <1>1, <1>2, <1>3, <1>4
  DEF Next, Call, IssueCode, Revoke, OpenForm, SaveForm, AbandonForm, ExpireCode,
      Authenticate, Serve, vars

\* authenticate_token answers to one machine at a time, forms that undo a revoke or a
\* redemption included: a token that comes back comes back to the machine that had it.
THEOREM OneMachineSpeaks ==
  Spec => [](\A m, n \in Machines :
                held[m] # 0 /\ held[n] # 0 /\ Accepted(held[m]) /\ Accepted(held[n]) => m = n)
<1>1. Init => OneSpeaks
  BY DEF Init, OneSpeaks
<1>2. Inv => TypeOK /\ Copies
  BY DEF Inv
<1>3. OneSpeaks =>
        \A m, n \in Machines :
            held[m] # 0 /\ held[n] # 0 /\ Accepted(held[m]) /\ Accepted(held[n]) => m = n
  BY DEF OneSpeaks, Accepted
<1>. QED BY <1>1, <1>2, <1>3, OneSpeaksStep, InvAlways, PTL DEF Spec
====
