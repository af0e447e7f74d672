------------------------------ MODULE Accounts ------------------------------
(***************************************************************************)
(* One account: the users row, its tokens and the requests that write them *)
(* (AuthService, UserCommandService, OnboardingService's save of the user, *)
(* LegacyUserSyncService).  One step is one statement; every write of the  *)
(* row is a save of the entity that the request loaded before.             *)
(***************************************************************************)
EXTENDS Naturals, FiniteSets

CONSTANTS
  Requests,    \* concurrent requests about the account
  Tokens,      \* ids of verification, reset and refresh tokens
  MaxRequests, \* requests considered (bound)
  None

VARIABLES
  user,       \* the row
  token,      \* the tokens
  op,         \* the requests
  started,    \* requests so far, for the bound
  overwrote,  \* history: a save wrote back columns that had changed since the load
  doubled     \* history: two requests presented one refresh token at a time

vars == <<user, token, op, started, overwrote, doubled>>

User   == [exists : BOOLEAN, verified : BOOLEAN, completed : BOOLEAN,
           deleted : BOOLEAN, password : 0 .. MaxRequests, profile : 0 .. MaxRequests]
NoUser == [exists |-> FALSE, verified |-> FALSE, completed |-> FALSE, deleted |-> FALSE,
           password |-> 0, profile |-> 0]
Fresh  == [NoUser EXCEPT !.exists = TRUE]

(* session: history, the login that a refresh token goes back to.            *)
NoToken == [type |-> "none", state |-> "unused", session |-> 0]
Token   == [type : {"none", "verification", "reset", "refresh"},
            state : {"unused", "usable", "spent"},
            session : 0 .. MaxRequests]

Kinds == {"register", "login", "verify", "resend", "refresh", "logout", "forgot", "reset",
          "change", "profile", "onboard", "sync"}
Pc    == {"idle", "insert", "token", "issue", "spend", "spendAll", "find", "load", "save",
          "revoke", "direct"}
NoOp  == [kind |-> "login", pc |-> "idle", token |-> None, copy |-> NoUser, session |-> 0]

Live == user.exists /\ ~ user.deleted

TypeOK ==
  /\ user \in User
  /\ token \in [Tokens -> Token]
  /\ op \in [Requests -> [kind : Kinds, pc : Pc, token : Tokens \cup {None}, copy : User,
                          session : 0 .. MaxRequests]]
  /\ started \in 0 .. MaxRequests
  /\ overwrote \in BOOLEAN /\ doubled \in BOOLEAN
  /\ \A t \in Tokens : token[t].type = "none" <=> token[t].state = "unused"

Init ==
  /\ user \in {NoUser, Fresh}
  /\ token = [t \in Tokens |-> NoToken]
  /\ op = [q \in Requests |-> NoOp]
  /\ started = 0
  /\ overwrote = FALSE
  /\ doubled = FALSE

-----------------------------------------------------------------------------
Starts(q, kind, pc, t) ==
  /\ op[q].pc = "idle" /\ started < MaxRequests
  /\ started' = started + 1
  /\ op' = [op EXCEPT ![q] = [NoOp EXCEPT !.kind = kind, !.pc = pc, !.token = t,
                                          !.session = started + 1]]

Goes(q, pc) == op' = [op EXCEPT ![q].pc = pc]
Ends(q)     == op' = [op EXCEPT ![q] = NoOp]

Usable(type) == {t \in Tokens : token[t].type = type /\ token[t].state = "usable"}

(* A request that reads whether it may go on, before any write. *)
Register(q) == ~ Live /\ Starts(q, "register", "insert", None)
Login(q)    == Live /\ Starts(q, "login", "issue", None)
Verify(q)   == \E t \in Usable("verification") : Starts(q, "verify", "spend", t)
Resend(q)   == Live /\ ~ user.verified /\ Starts(q, "resend", "spendAll", None)
Refresh(q)  == \E t \in Usable("refresh") : Starts(q, "refresh", "spend", t)
Logout(q)   == \E t \in Usable("refresh") : Starts(q, "logout", "spend", t)
Forgot(q)   == Live /\ Starts(q, "forgot", "token", None)
Reset(q)    == \E t \in Usable("reset") : Starts(q, "reset", "spend", t)
Change(q)   == Live /\ Starts(q, "change", "load", None)
Profile(q)  == Live /\ Starts(q, "profile", "load", None)
Onboard(q)  == Live /\ Starts(q, "onboard", "load", None)

Request(q) ==
  /\ \/ Register(q) \/ Login(q) \/ Verify(q) \/ Resend(q) \/ Refresh(q) \/ Logout(q)
     \/ Forgot(q) \/ Reset(q) \/ Change(q) \/ Profile(q) \/ Onboard(q)
  /\ UNCHANGED <<user, token, overwrote, doubled>>

(* The database fails, or the process stops. *)
Fails(q) ==
  /\ op[q].pc # "idle"
  /\ Ends(q)
  /\ UNCHANGED <<user, token, started, overwrote, doubled>>

SoftDelete ==
  /\ Live
  /\ user' = [user EXCEPT !.deleted = TRUE]
  /\ UNCHANGED <<token, op, started, overwrote, doubled>>

(* A verification or reset token passes its time.  That of a refresh token   *)
(* is left out: it would only end a session early.                           *)
Expire ==
  /\ \E t \in Usable("verification") \cup Usable("reset") :
       token' = [token EXCEPT ![t].state = "spent"]
  /\ UNCHANGED <<user, op, started, overwrote, doubled>>

-----------------------------------------------------------------------------
(* create: the unique email also belongs to a deleted account. *)
Insert(q) ==
  /\ op[q].pc = "insert"
  /\ IF ~ user.exists THEN user' = Fresh /\ Goes(q, "token") ELSE Ends(q) /\ UNCHANGED user
  /\ UNCHANGED <<token, started, overwrote, doubled>>

(* A verification or a reset token is saved; its mail may fail. *)
SaveToken(q) ==
  /\ op[q].pc = "token"
  /\ \E t \in Tokens :
       /\ token[t] = NoToken
       /\ token' = [token EXCEPT ![t] =
            [NoToken EXCEPT !.type = IF op[q].kind = "forgot" THEN "reset" ELSE "verification",
                            !.state = "usable"]]
  /\ IF op[q].kind = "register" THEN Goes(q, "issue") ELSE Ends(q)
  /\ UNCHANGED <<user, started, overwrote, doubled>>

(* issueTokens *)
IssueTokens(q) ==
  /\ op[q].pc = "issue"
  /\ \E t \in Tokens :
       /\ token[t] = NoToken
       /\ token' = [token EXCEPT ![t] = [type |-> "refresh", state |-> "usable",
                                         session |-> op[q].session]]
  /\ Ends(q)
  /\ UNCHANGED <<user, started, overwrote, doubled>>

(* Mutant: the token that was presented stays valid. *)
SpendNothing(q) ==
  /\ op[q].pc = "spend"
  /\ op' = [op EXCEPT ![q].session = token[op[q].token].session,
                      ![q].pc = IF op[q].kind = "refresh" THEN "find" ELSE "load"]
  /\ UNCHANGED <<user, token, started, overwrote, doubled>>

(* consumedAt or revokedAt of the token that was presented. *)
Spend(q) ==
  LET o == op[q] IN
  /\ o.pc = "spend"
  /\ token' = [token EXCEPT ![o.token].state = "spent"]
  /\ doubled' = (doubled \/ (o.kind = "refresh" /\ token[o.token].state = "spent"))
  /\ CASE o.kind = "logout"  -> Ends(q)
       [] o.kind = "refresh" -> op' = [op EXCEPT ![q].pc = "find",
                                                 ![q].session = token[o.token].session]
       [] OTHER              -> Goes(q, "load")
  /\ UNCHANGED <<user, started, overwrote>>

(* Resend: what the user has not used is consumed. *)
SpendAll(q) ==
  /\ op[q].pc = "spendAll"
  /\ token' = [t \in Tokens |-> IF t \in Usable("verification")
                                THEN [token[t] EXCEPT !.state = "spent"] ELSE token[t]]
  /\ Goes(q, "token")
  /\ UNCHANGED <<user, started, overwrote, doubled>>

(* refresh: a deleted user gets no token. *)
FindUser(q) ==
  /\ op[q].pc = "find"
  /\ IF Live THEN Goes(q, "issue") ELSE Ends(q)
  /\ UNCHANGED <<user, token, started, overwrote, doubled>>

(* getOrFail *)
Load(q) ==
  /\ op[q].pc = "load"
  /\ IF Live THEN op' = [op EXCEPT ![q].copy = user, ![q].pc = "save"] ELSE Ends(q)
  /\ UNCHANGED <<user, token, started, overwrote, doubled>>

Edited(kind, copy, n) ==
  CASE kind = "verify"              -> [copy EXCEPT !.verified = TRUE]
    [] kind \in {"reset", "change"} -> [copy EXCEPT !.password = n]
    [] kind = "onboard"             -> [copy EXCEPT !.completed = TRUE, !.profile = n]
    [] OTHER                        -> [copy EXCEPT !.profile = n]

(* save: every column in which the loaded entity now differs from the row. *)
SaveUser(q) ==
  LET o == op[q] IN
  /\ o.pc = "save"
  /\ user' = Edited(o.kind, o.copy, o.session)
  /\ overwrote' = (overwrote \/ user # o.copy)
  /\ CASE o.kind = "reset" -> Goes(q, "revoke")
       [] o.kind = "sync"  -> Goes(q, "direct")
       [] OTHER            -> Ends(q)
  /\ UNCHANGED <<token, started, doubled>>

(* A profile or an onboarding that changes nothing is not saved. *)
Unchanged(q) ==
  LET o == op[q] IN
  /\ o.pc = "save" /\ o.kind \in {"profile", "sync", "onboard"}
  /\ o.kind = "onboard" => o.copy.completed
  /\ IF o.kind = "sync" THEN Goes(q, "direct") ELSE Ends(q)
  /\ UNCHANGED <<user, token, started, overwrote, doubled>>

(* A reset revokes every refresh token. *)
RevokeAll(q) ==
  /\ op[q].pc = "revoke"
  /\ token' = [t \in Tokens |-> IF t \in Usable("refresh")
                                THEN [token[t] EXCEPT !.state = "spent"] ELSE token[t]]
  /\ Ends(q)
  /\ UNCHANGED <<user, started, overwrote, doubled>>

-----------------------------------------------------------------------------
(* The seed script for one account restores, or creates it as verified, then *)
(* updates its profile, and its columns directly; onboarding follows.        *)
Sync(q) ==
  /\ Starts(q, "sync", "load", None)
  /\ user' = IF ~ user.exists THEN [Fresh EXCEPT !.verified = TRUE]
             ELSE [user EXCEPT !.deleted = FALSE]
  /\ UNCHANGED <<token, overwrote, doubled>>

(* Mutant: the manifest does not say that the email was verified. *)
DirectFieldsAnew(q) ==
  /\ op[q].pc = "direct"
  /\ user' = [user EXCEPT !.verified = FALSE]
  /\ op' = [op EXCEPT ![q].pc = "load", ![q].kind = "onboard"]
  /\ UNCHANGED <<token, started, overwrote, doubled>>

DirectFields(q) ==
  /\ op[q].pc = "direct"
  /\ user' = [user EXCEPT !.verified = TRUE]
  /\ op' = [op EXCEPT ![q].pc = "load", ![q].kind = "onboard"]
  /\ UNCHANGED <<token, started, overwrote, doubled>>

-----------------------------------------------------------------------------
Next ==
  \/ \E q \in Requests :
       \/ Request(q) \/ Fails(q) \/ Insert(q) \/ SaveToken(q) \/ IssueTokens(q) \/ Spend(q)
       \/ SpendAll(q) \/ FindUser(q) \/ Load(q) \/ SaveUser(q) \/ Unchanged(q)
       \/ RevokeAll(q) \/ Sync(q) \/ DirectFields(q)
  \/ SoftDelete \/ Expire

Spec == Init /\ [][Next]_vars

-----------------------------------------------------------------------------
(* A verified email stays verified and a completed onboarding completed, in  *)
(* whatever order the requests write the row: only a save that writes back   *)
(* what it loaded before another's write can undo them.                      *)
KeepsProgress ==
  user.exists /\ ~ overwrote' =>
    /\ user.verified => user'.verified
    /\ user.completed => user'.completed

ProgressIsKept == [][KeepsProgress]_vars

(* A login is continued by one refresh token at a time, unless two requests  *)
(* presented the same one side by side.                                      *)
OneTokenPerSession ==
  ~ doubled => \A s, t \in Usable("refresh") : token[s].session = token[t].session => s = t

(* What the code does not guarantee: onboarding saves the user it loaded     *)
(* before it resolved the selections.                                        *)
VerifiedStays == [][user.exists /\ user.verified => user'.verified]_vars
=============================================================================
