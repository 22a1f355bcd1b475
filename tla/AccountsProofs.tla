--------------------------- MODULE AccountsProofs ---------------------------
(***************************************************************************)
(* What holds of accounts and sessions for every set of browsers, requests,*)
(* addresses and names, every choice of endpoints and every bound.         *)
(***************************************************************************)
EXTENDS Accounts, TLAPS

USE DEF vars, people, tokens, mailbox, google, browser, flight, bounds, history

(***************************************************************************)
(* The control flow of the handlers.                                       *)
(***************************************************************************)
ReqType == req \in [Slots -> Request]

\* The labels at which a request knows the account it is about.
HasUser == {"google_verify", "kit", "access", "refresh", "read_back", "verification", "exchange",
            "undo", "undo_kit", "password", "spend", "purge_refresh", "purge_access", "email_free",
            "convert", "reload", "verify", "name_owner", "rename", "remove"}

UserKnown == \A r \in Slots : req[r].pc \in HasUser => req[r].user \in Ids

\* Where a request may go from where it is.
Edge(q, l) ==
    \/ q.pc = "name" /\ l = "create"
    \/ q.pc = "find" /\ l \in {"google_verify", "access", "create"}
    \/ q.pc = "google_verify" /\ l = "access"
    \/ q.pc = "create" /\ l = "kit"
    \/ q.pc = "kit" /\ l \in {"kit", "access"}
    \/ l = "undo" /\ \/ q.handler = "signup" /\ q.pc \in {"kit", "access", "refresh", "read_back", "verification"}
                     \/ q.handler = "guest" /\ q.pc \in {"kit", "access", "refresh", "read_back"}
                     \/ q.handler = "google" /\ q.pc = "kit"
    \/ q.pc = "undo" /\ l = "undo_kit"
    \/ q.pc = "access" /\ l = "refresh"
    \/ q.pc = "refresh" /\ l = "read_back"
    \/ q.pc = "read_back" /\ \/ q.handler \in {"signup", "upgrade"} /\ l = "verification"
                             \/ q.handler = "google" /\ l = "exchange"
                             \/ q.handler = "refresh" /\ l = "drop_access"
                             \/ q.handler \notin {"signup", "upgrade", "google", "refresh"} /\ l = "reply"
    \/ q.pc = "verification" /\ q.handler # "resend" /\ l = "reply"
    \/ q.pc = "pick_up" /\ l = "reply"
    \/ q.pc = "match" /\ l \in {"reject", "access"}
    \/ q.pc = "reject" /\ l = "reject_access"
    \/ q.pc = "drop_access" /\ l = "drop_refresh"
    \/ q.pc = "drop_refresh" /\ q.handler = "logout" /\ l = "clear"
    \/ q.pc = "drop_refresh" /\ q.handler # "logout" /\ l = "reply"
    \/ q.pc = "password" /\ l = "spend"
    \/ q.pc = "spend" /\ l = "purge_refresh"
    \/ q.pc = "purge_refresh" /\ l = "purge_access"
    \/ q.pc = "purge_access" /\ q.handler = "upgrade" /\ l = "access"
    \/ q.pc = "purge_access" /\ q.handler = "remove" /\ l = "clear"
    \/ q.pc = "email_free" /\ l = "convert"
    \/ q.pc = "convert" /\ l = "reload"
    \/ q.pc = "reload" /\ l = "purge_refresh"
    \/ q.pc = "verify" /\ l = "mark"
    \/ q.pc = "name_owner" /\ l = "rename"
    \/ q.pc = "remove" /\ l = "purge_refresh"

\* A request p that a step of request q leaves: over, or further along with
\* all but a few fields as they were.
Follows(q, p) ==
    \/ p = Idle
    \/ /\ Edge(q, p.pc)
       /\ p.handler = q.handler /\ p.old = q.old
       /\ q.pc # "find" => p.name = q.name
       /\ q.pc # "reload" => p.email = q.email
       /\ q.pc \notin {"find", "create", "match"} => p.user = q.user
       /\ q.pc \notin {"password", "convert", "remove"} => p.mark = q.mark
       /\ q.pc # "remove" => p.ok = q.ok
       /\ p.pc # "refresh" => p.new.access = q.new.access
       /\ p.pc # "read_back" => p.new.refresh = q.new.refresh

\* What every step of slot r does to the requests.
Flow(r) ==
    /\ req' \in [Slots -> Request]
    /\ \A s \in Slots : s # r => req'[s] = req[s]
    /\ Follows(req[r], req'[r])

LEMMA IdleType == Idle \in Request
BY DEF Idle, Request, Labels, Endpoints, NoPair, Pair, Provisioning

LEMMA StepSlot ==
    ASSUME ReqType, NEW r \in Slots, NEW q \in Request, Step(r, q)
    PROVE  /\ req' \in [Slots -> Request] /\ req'[r] = q
           /\ \A s \in Slots : s # r => req'[s] = req[s]
BY DEF ReqType, Step

LEMMA ReturnFlow ==
    ASSUME ReqType, NEW r \in Slots, Return(r)
    PROVE  Flow(r) /\ req'[r] = Idle
BY IdleType, StepSlot DEF Return, Flow, Follows

LEMMA GotoFlow ==
    ASSUME ReqType, NEW r \in Slots, NEW l \in Labels, Goto(r, l), Edge(req[r], l),
           l \notin {"refresh", "read_back"}
    PROVE  /\ Flow(r) /\ req'[r].pc = l /\ req'[r].user = req[r].user
           /\ req'[r] # Idle
<1> DEFINE q == [req[r] EXCEPT !.pc = l]
<1>1. req[r] \in Request
  BY DEF ReqType
<1>2. /\ q \in Request /\ q.pc = l /\ q.handler = req[r].handler /\ q.old = req[r].old
      /\ q.name = req[r].name /\ q.email = req[r].email /\ q.user = req[r].user
      /\ q.mark = req[r].mark /\ q.ok = req[r].ok /\ q.new = req[r].new
  BY <1>1 DEF Request
<1>3. Step(r, q)
  BY DEF Goto
<1> HIDE DEF q
<1>4. Flow(r) /\ req'[r] = q
  BY <1>2, <1>3, StepSlot DEF Flow, Follows
<1>5. l # "idle"
  BY DEF Edge
<1>6. QED
  BY <1>2, <1>4, <1>5 DEF Idle

Basics == TypeOK /\ UserKnown /\ 1 <= nextUser

\* The steps that only go on or return.
LEMMA PlainFlow ==
    ASSUME Basics, NEW r \in Slots,
           \/ CheckName(r) \/ GoogleVerify(r) \/ AddResource(r) \/ Fail(r) \/ UndoUser(r) \/ UndoKit(r)
           \/ ReadBack(r) \/ SendVerification(r) \/ StoreExchange(r) \/ PickUp(r) \/ Reply(r)
           \/ ClearJar(r)
    PROVE  Flow(r)
<1>1. ReqType /\ req[r] \in Request
  BY DEF Basics, TypeOK, ReqType
<1>2. Return(r) => Flow(r)
  BY <1>1, ReturnFlow
<1>3. \A l \in Labels : Goto(r, l) /\ Edge(req[r], l) /\ l \notin {"refresh", "read_back"} => Flow(r)
  BY <1>1, GotoFlow
<1>4. {"create", "access", "undo", "undo_kit", "reply", "verification", "exchange", "drop_access"}
          \subseteq Labels \ {"refresh", "read_back"}
  BY DEF Labels
<1>5. CASE CheckName(r)
  BY <1>2, <1>3, <1>4, <1>5 DEF CheckName, At, Edge
<1>6. CASE GoogleVerify(r)
  BY <1>2, <1>3, <1>4, <1>6 DEF GoogleVerify, At, Edge
<1>7. CASE AddResource(r)
  <2>1. CASE Goto(r, "access")
    BY <1>3, <1>4, <1>7, <2>1 DEF AddResource, At, Edge
  <2>2. CASE UNCHANGED req
    BY <1>1, <1>7, <2>2 DEF AddResource, At, Edge, Flow, Follows, ReqType
  <2>3. QED
    BY <1>7, <2>1, <2>2 DEF AddResource
<1>8. ASSUME Raise(r), Guarded(r) \/ req[r].pc \in {"refresh", "read_back"} PROVE Flow(r)
  BY <1>2, <1>3, <1>4, <1>8 DEF Raise, Guarded, Edge
<1>9. CASE Fail(r)
  BY <1>8, <1>9 DEF Fail
<1>10. CASE UndoUser(r) \/ UndoKit(r)
  BY <1>2, <1>3, <1>4, <1>10 DEF UndoUser, UndoKit, At, Edge
<1>11. CASE ReadBack(r)
  <2>1. req[r].handler \in Endpoints
    BY <1>1 DEF Request
  <2>2. /\ req[r].handler \in {"signup", "upgrade"} => AfterIssue[req[r].handler] = "verification"
        /\ req[r].handler = "google" => AfterIssue[req[r].handler] = "exchange"
        /\ req[r].handler = "refresh" => AfterIssue[req[r].handler] = "drop_access"
        /\ req[r].handler \notin {"signup", "upgrade", "google", "refresh"} =>
              AfterIssue[req[r].handler] = "reply"
    BY <2>1 DEF AfterIssue
  <2>3. Edge(req[r], AfterIssue[req[r].handler]) /\ AfterIssue[req[r].handler] \in Labels \ {"refresh", "read_back"}
    BY <1>4, <1>11, <2>2 DEF ReadBack, At, Edge
  <2>4. QED
    BY <1>3, <1>8, <1>11, <2>3 DEF ReadBack, At
<1>12. CASE SendVerification(r) \/ StoreExchange(r) \/ PickUp(r) \/ Reply(r) \/ ClearJar(r)
  BY <1>2, <1>3, <1>4, <1>12 DEF SendVerification, StoreExchange, PickUp, Reply, ClearJar, At, Edge
<1>13. QED
  BY <1>5, <1>6, <1>7, <1>9, <1>10, <1>11, <1>12

LEMMA PlainFlowToo ==
    ASSUME Basics, NEW r \in Slots,
           \/ DropAccess(r) \/ RejectRefresh(r) \/ DropRefresh(r) \/ SkipDelete(r)
           \/ SpendReset(r) \/ PurgeRefresh(r)
           \/ CheckUpgrade(r) \/ SetVerified(r) \/ MarkVerified(r) \/ CheckRename(r) \/ Rename(r)
    PROVE  Flow(r)
<1>1. ReqType
  BY DEF Basics, TypeOK, ReqType
<1>2. Return(r) => Flow(r)
  BY <1>1, ReturnFlow
<1>3. \A l \in Labels : Goto(r, l) /\ Edge(req[r], l) /\ l \notin {"refresh", "read_back"} => Flow(r)
  BY <1>1, GotoFlow
<1>4. {"drop_refresh", "reject_access", "clear", "reply", "purge_refresh", "purge_access", "convert",
       "mark", "rename"} \subseteq Labels \ {"refresh", "read_back"}
  BY DEF Labels
<1>5. CASE DropAccess(r) \/ RejectRefresh(r) \/ DropRefresh(r) \/ SkipDelete(r)
  BY <1>2, <1>3, <1>4, <1>5 DEF DropAccess, RejectRefresh, DropRefresh, SkipDelete, At, Edge
<1>6. CASE SpendReset(r) \/ PurgeRefresh(r) \/ CheckUpgrade(r)
  BY <1>2, <1>3, <1>4, <1>6 DEF SpendReset, PurgeRefresh, CheckUpgrade, At, Edge
<1>7. CASE SetVerified(r) \/ MarkVerified(r) \/ CheckRename(r) \/ Rename(r)
  BY <1>2, <1>3, <1>4, <1>7 DEF SetVerified, MarkVerified, CheckRename, Rename, At, Edge
<1>8. QED
  BY <1>5, <1>6, <1>7

LEMMA FindUserFlow ==
    ASSUME Basics, NEW r \in Slots, FindUser(r)
    PROVE  /\ Flow(r)
           /\ \/ /\ req'[r].pc \in {"google_verify", "access"}
                 /\ req'[r].user \in WithEmail(req[r].email)
              \/ req'[r].pc = "create"
<1>1. ReqType /\ req[r] \in Request /\ req[r].pc = "find"
  BY DEF Basics, TypeOK, ReqType, FindUser, At
<1>2. CASE \E u \in WithEmail(req[r].email) :
              Step(r, [req[r] EXCEPT !.user = u,
                         !.pc = IF ~users[u].verified /\ req[r].ok THEN "google_verify" ELSE "access"])
  <2>1. PICK u \in WithEmail(req[r].email), l \in {"google_verify", "access"} :
            Step(r, [req[r] EXCEPT !.user = u, !.pc = l])
    BY <1>2
  <2>2. u \in Ids
    BY <2>1 DEF WithEmail
  <2> DEFINE p == [req[r] EXCEPT !.user = u, !.pc = l]
  <2>3. /\ p \in Request /\ p.pc = l /\ p.handler = req[r].handler /\ p.old = req[r].old
        /\ p.name = req[r].name /\ p.email = req[r].email /\ p.user = u
        /\ p.mark = req[r].mark /\ p.ok = req[r].ok /\ p.new = req[r].new
    BY <1>1, <2>2 DEF Request, Labels
  <2>4. Step(r, p)
    BY <2>1
  <2> HIDE DEF p
  <2>5. req' \in [Slots -> Request] /\ req'[r] = p /\ \A s \in Slots : s # r => req'[s] = req[s]
    BY <1>1, <2>3, <2>4, StepSlot
  <2>6. Edge(req[r], l)
    BY <1>1 DEF Edge
  <2>7. QED
    BY <1>1, <2>3, <2>5, <2>6 DEF Flow, Follows
<1>3. CASE \E n \in FreeNames : Step(r, [req[r] EXCEPT !.pc = "create", !.name = n])
  <2>1. PICK n \in Names \cup {Handle} : Step(r, [req[r] EXCEPT !.pc = "create", !.name = n])
    BY <1>3 DEF FreeNames
  <2> DEFINE p == [req[r] EXCEPT !.pc = "create", !.name = n]
  <2>3. /\ p \in Request /\ p.pc = "create" /\ p.handler = req[r].handler /\ p.old = req[r].old
        /\ p.name = n /\ p.email = req[r].email /\ p.user = req[r].user
        /\ p.mark = req[r].mark /\ p.ok = req[r].ok /\ p.new = req[r].new
    BY <1>1 DEF Request, Labels
  <2>4. Step(r, p)
    BY <2>1
  <2> HIDE DEF p
  <2>5. req' \in [Slots -> Request] /\ req'[r] = p /\ \A s \in Slots : s # r => req'[s] = req[s]
    BY <1>1, <2>3, <2>4, StepSlot
  <2>6. Edge(req[r], "create")
    BY <1>1 DEF Edge
  <2>7. QED
    BY <1>1, <2>3, <2>5, <2>6 DEF Flow, Follows
<1>4. QED
  BY <1>2, <1>3 DEF FindUser

\* A step that sets one more field while it goes on.
LEMMA SettingFlow ==
    ASSUME ReqType, NEW r \in Slots, NEW p \in Request, Step(r, p), Edge(req[r], p.pc),
           p.handler = req[r].handler /\ p.old = req[r].old,
           req[r].pc # "find" => p.name = req[r].name,
           req[r].pc # "reload" => p.email = req[r].email,
           req[r].pc \notin {"find", "create", "match"} => p.user = req[r].user,
           req[r].pc \notin {"password", "convert", "remove"} => p.mark = req[r].mark,
           req[r].pc # "remove" => p.ok = req[r].ok,
           p.pc # "refresh" => p.new.access = req[r].new.access,
           p.pc # "read_back" => p.new.refresh = req[r].new.refresh
    PROVE  Flow(r) /\ req'[r] = p
BY StepSlot DEF Flow, Follows

LEMMA CreateUserFlow ==
    ASSUME Basics, NEW r \in Slots, CreateUser(r)
    PROVE  Flow(r) /\ req'[r].pc = "kit" /\ req'[r].user = nextUser /\ nextUser \in Ids
<1>1. ReqType /\ req[r] \in Request /\ req[r].pc = "create" /\ nextUser \in Ids
  BY AccountsAssumption DEF Basics, TypeOK, ReqType, CreateUser, At, Ids
<1> DEFINE p == [req[r] EXCEPT !.pc = "kit", !.user = nextUser]
<1>2. /\ p \in Request /\ p.pc = "kit" /\ p.handler = req[r].handler /\ p.old = req[r].old
      /\ p.name = req[r].name /\ p.email = req[r].email /\ p.user = nextUser
      /\ p.mark = req[r].mark /\ p.ok = req[r].ok /\ p.new = req[r].new
  BY <1>1 DEF Request, Labels
<1>3. Step(r, p)
  BY DEF CreateUser
<1> HIDE DEF p
<1>4. Edge(req[r], p.pc)
  BY <1>1, <1>2 DEF Edge
<1>5. Flow(r) /\ req'[r] = p
  BY <1>1, <1>2, <1>3, <1>4, SettingFlow
<1>6. QED
  BY <1>1, <1>2, <1>5

LEMMA IssueAccessFlow ==
    ASSUME Basics, NEW r \in Slots, IssueAccess(r)
    PROVE  Flow(r) /\ req'[r].pc = "refresh" /\ req'[r].new.access = nextId
<1>1. ReqType /\ req[r] \in Request /\ req[r].pc = "access" /\ nextId \in Nat
  BY DEF Basics, TypeOK, ReqType, IssueAccess, At
<1> DEFINE p == [req[r] EXCEPT !.pc = "refresh", !.new.access = nextId]
<1>2. req[r].new \in Pair
  BY <1>1 DEF Request
<1>3. /\ p \in Request /\ p.pc = "refresh" /\ p.handler = req[r].handler /\ p.old = req[r].old
      /\ p.name = req[r].name /\ p.email = req[r].email /\ p.user = req[r].user
      /\ p.mark = req[r].mark /\ p.ok = req[r].ok
      /\ p.new.access = nextId /\ p.new.refresh = req[r].new.refresh
  BY <1>1, <1>2 DEF Request, Labels, Pair
<1>4. Step(r, p)
  BY DEF IssueAccess
<1> HIDE DEF p
<1>5. Edge(req[r], p.pc)
  BY <1>1, <1>3 DEF Edge
<1>6. Flow(r) /\ req'[r] = p
  BY <1>1, <1>3, <1>4, <1>5, SettingFlow
<1>7. QED
  BY <1>3, <1>6

LEMMA IssueRefreshFlow ==
    ASSUME Basics, NEW r \in Slots, IssueRefresh(r)
    PROVE  /\ Flow(r)
           /\ \/ UNCHANGED <<refresh, nextId>> /\ req'[r].pc # "read_back"
              \/ /\ refresh' = refresh \cup {[id |-> nextId, user |-> req[r].user, prev |-> req[r].new.access]}
                 /\ nextId' = nextId + 1
                 /\ req'[r].pc = "read_back" /\ req'[r].new = [req[r].new EXCEPT !.refresh = nextId]
<1>1. ReqType /\ req[r] \in Request /\ req[r].pc = "refresh" /\ nextId \in Nat
  BY DEF Basics, TypeOK, ReqType, IssueRefresh, At
<1>2. CASE \A a \in access : a.id # req[r].new.access
  <2>1. Raise(r) /\ UNCHANGED <<refresh, nextId>>
    BY <1>2 DEF IssueRefresh
  <2>2. CASE Guarded(r)
    <3>1. Goto(r, "undo") /\ Edge(req[r], "undo") /\ "undo" \in Labels \ {"refresh", "read_back"}
      BY <1>1, <2>1, <2>2 DEF Raise, Guarded, Edge, Labels
    <3>2. QED
      BY <1>1, <2>1, <3>1, GotoFlow
  <2>3. CASE ~ Guarded(r)
    BY <1>1, <2>1, <2>3, ReturnFlow DEF Raise, Idle
  <2>4. QED
    BY <2>2, <2>3
<1>3. CASE ~ \A a \in access : a.id # req[r].new.access
  <2> DEFINE p == [req[r] EXCEPT !.pc = "read_back", !.new.refresh = nextId]
  <2>1. req[r].new \in Pair
    BY <1>1 DEF Request
  <2>2. /\ p \in Request /\ p.pc = "read_back" /\ p.handler = req[r].handler /\ p.old = req[r].old
        /\ p.name = req[r].name /\ p.email = req[r].email /\ p.user = req[r].user
        /\ p.mark = req[r].mark /\ p.ok = req[r].ok
        /\ p.new = [req[r].new EXCEPT !.refresh = nextId] /\ p.new.access = req[r].new.access
    BY <1>1, <2>1 DEF Request, Labels, Pair
  <2>3. /\ Step(r, p) /\ nextId' = nextId + 1
        /\ refresh' = refresh \cup {[id |-> nextId, user |-> req[r].user, prev |-> req[r].new.access]}
    BY <1>3 DEF IssueRefresh
  <2> HIDE DEF p
  <2>4. Edge(req[r], p.pc)
    BY <1>1, <2>2 DEF Edge
  <2>5. Flow(r) /\ req'[r] = p
    BY <1>1, <2>2, <2>3, <2>4, SettingFlow
  <2>6. QED
    BY <2>2, <2>3, <2>5
<1>4. QED
  BY <1>2, <1>3

LEMMA MatchSessionFlow ==
    ASSUME Basics, NEW r \in Slots, MatchSession(r)
    PROVE  /\ Flow(r)
           /\ req'[r].pc = "reject" =>
                 \E t \in refresh : t.id = req[r].old.refresh /\ t.prev # req[r].old.access
           /\ req'[r].pc = "access" => req'[r].user \in Ids
<1>1. ReqType /\ req[r] \in Request /\ req[r].pc = "match"
  BY DEF Basics, TypeOK, ReqType, MatchSession, At
<1>2. CASE Return(r)
  BY <1>1, <1>2, ReturnFlow DEF Idle
<1>3. ASSUME NEW t \in RefreshToken(req[r].old.refresh), t.prev # req[r].old.access, Goto(r, "reject")
      PROVE  Flow(r) /\ req'[r].pc = "reject" /\ t \in refresh /\ t.id = req[r].old.refresh
  <2>1. Edge(req[r], "reject") /\ "reject" \in Labels \ {"refresh", "read_back"}
    BY <1>1 DEF Edge, Labels
  <2>2. QED
    BY <1>1, <1>3, <2>1, GotoFlow DEF RefreshToken
<1>4. ASSUME NEW t \in RefreshToken(req[r].old.refresh), Step(r, [req[r] EXCEPT !.pc = "access", !.user = t.user])
      PROVE  Flow(r) /\ req'[r].pc = "access" /\ req'[r].user \in Ids
  <2>1. t.user \in Ids
    BY DEF RefreshToken, Basics, TypeOK, Refresh
  <2> DEFINE p == [req[r] EXCEPT !.pc = "access", !.user = t.user]
  <2>2. /\ p \in Request /\ p.pc = "access" /\ p.handler = req[r].handler /\ p.old = req[r].old
        /\ p.name = req[r].name /\ p.email = req[r].email /\ p.user = t.user
        /\ p.mark = req[r].mark /\ p.ok = req[r].ok /\ p.new = req[r].new
    BY <1>1, <2>1 DEF Request, Labels
  <2>3. Step(r, p)
    BY <1>4
  <2> HIDE DEF p
  <2>4. Edge(req[r], p.pc)
    BY <1>1, <2>2 DEF Edge
  <2>5. Flow(r) /\ req'[r] = p
    BY <1>1, <2>2, <2>3, <2>4, SettingFlow
  <2>6. QED
    BY <2>1, <2>2, <2>5
<1>5. QED
  BY <1>2, <1>3, <1>4 DEF MatchSession

LEMMA SetPasswordFlow ==
    ASSUME Basics, NEW r \in Slots, SetPassword(r)
    PROVE  Flow(r) /\ req'[r].pc = "spend" /\ req'[r].mark = nextId
<1>1. ReqType /\ req[r] \in Request /\ req[r].pc = "password" /\ nextId \in Nat
  BY DEF Basics, TypeOK, ReqType, SetPassword, At
<1> DEFINE p == [req[r] EXCEPT !.pc = "spend", !.mark = nextId]
<1>2. /\ p \in Request /\ p.pc = "spend" /\ p.handler = req[r].handler /\ p.old = req[r].old
      /\ p.name = req[r].name /\ p.email = req[r].email /\ p.user = req[r].user
      /\ p.mark = nextId /\ p.ok = req[r].ok /\ p.new = req[r].new
  BY <1>1 DEF Request, Labels
<1>3. Step(r, p)
  BY DEF SetPassword
<1> HIDE DEF p
<1>4. Edge(req[r], p.pc)
  BY <1>1, <1>2 DEF Edge
<1>5. Flow(r) /\ req'[r] = p
  BY <1>1, <1>2, <1>3, <1>4, SettingFlow
<1>6. QED
  BY <1>2, <1>5

LEMMA ConvertFlow ==
    ASSUME Basics, NEW r \in Slots, Convert(r)
    PROVE  Flow(r) /\ req'[r].pc = "reload" /\ req'[r].mark = nextId
<1>1. ReqType /\ req[r] \in Request /\ req[r].pc = "convert" /\ nextId \in Nat
  BY DEF Basics, TypeOK, ReqType, Convert, At
<1> DEFINE p == [req[r] EXCEPT !.pc = "reload", !.mark = nextId]
<1>2. /\ p \in Request /\ p.pc = "reload" /\ p.handler = req[r].handler /\ p.old = req[r].old
      /\ p.name = req[r].name /\ p.email = req[r].email /\ p.user = req[r].user
      /\ p.mark = nextId /\ p.ok = req[r].ok /\ p.new = req[r].new
  BY <1>1 DEF Request, Labels
<1>3. Step(r, p)
  BY DEF Convert
<1> HIDE DEF p
<1>4. Edge(req[r], p.pc)
  BY <1>1, <1>2 DEF Edge
<1>5. Flow(r) /\ req'[r] = p
  BY <1>1, <1>2, <1>3, <1>4, SettingFlow
<1>6. QED
  BY <1>2, <1>5

LEMMA ReloadFlow ==
    ASSUME Basics, NEW r \in Slots, Reload(r)
    PROVE  /\ Flow(r)
           /\ \/ req'[r] = Idle
              \/ req'[r].pc = "purge_refresh" /\ req'[r].email = users[req[r].user].email
<1>1. ReqType /\ req[r] \in Request /\ req[r].pc = "reload"
  BY DEF Basics, TypeOK, ReqType, Reload, At
<1>2. CASE Return(r)
  BY <1>1, <1>2, ReturnFlow
<1>3. CASE Live(req[r].user) /\ Step(r, [req[r] EXCEPT !.pc = "purge_refresh", !.email = users[req[r].user].email])
  <2>1. req[r].user \in Ids
    BY <1>1 DEF Basics, UserKnown, HasUser
  <2>2. users[req[r].user].email \in Emails \cup {Synthetic}
    BY <2>1 DEF Basics, TypeOK, User
  <2> DEFINE p == [req[r] EXCEPT !.pc = "purge_refresh", !.email = users[req[r].user].email]
  <2>3. /\ p \in Request /\ p.pc = "purge_refresh" /\ p.handler = req[r].handler /\ p.old = req[r].old
        /\ p.name = req[r].name /\ p.email = users[req[r].user].email /\ p.user = req[r].user
        /\ p.mark = req[r].mark /\ p.ok = req[r].ok /\ p.new = req[r].new
    BY <1>1, <2>2 DEF Request, Labels
  <2>4. Step(r, p)
    BY <1>3
  <2> HIDE DEF p
  <2>5. Edge(req[r], p.pc)
    BY <1>1, <2>3 DEF Edge
  <2>6. Flow(r) /\ req'[r] = p
    BY <1>1, <2>3, <2>4, <2>5, SettingFlow
  <2>7. QED
    BY <2>3, <2>6
<1>4. QED
  BY <1>2, <1>3 DEF Reload

LEMMA PurgeAccessFlow ==
    ASSUME Basics, NEW r \in Slots, PurgeAccess(r)
    PROVE  Flow(r)
<1>1. ReqType /\ req[r] \in Request /\ req[r].pc = "purge_access" /\ Step(r, AfterPurge(req[r]))
  BY DEF Basics, TypeOK, ReqType, PurgeAccess, At
<1>2. CASE req[r].handler = "upgrade"
  <2>1. AfterPurge(req[r]) = [req[r] EXCEPT !.pc = "access"]
    BY <1>2 DEF AfterPurge
  <2>2. Goto(r, "access") /\ Edge(req[r], "access") /\ "access" \in Labels
    BY <1>1, <1>2, <2>1 DEF Goto, Edge, Labels
  <2>3. QED
    BY <1>1, <2>2, GotoFlow
<1>3. CASE req[r].handler = "remove" /\ req[r].ok
  <2>1. AfterPurge(req[r]) = [req[r] EXCEPT !.pc = "clear"]
    BY <1>3 DEF AfterPurge
  <2>2. Goto(r, "clear") /\ Edge(req[r], "clear") /\ "clear" \in Labels
    BY <1>1, <1>3, <2>1 DEF Goto, Edge, Labels
  <2>3. QED
    BY <1>1, <2>2, GotoFlow
<1>4. CASE req[r].handler # "upgrade" /\ ~ (req[r].handler = "remove" /\ req[r].ok)
  <2>1. AfterPurge(req[r]) = Idle
    BY <1>4 DEF AfterPurge
  <2>2. QED
    BY <1>1, <2>1, ReturnFlow DEF Return
<1>5. QED
  BY <1>2, <1>3, <1>4

LEMMA RemoveUserFlow ==
    ASSUME Basics, NEW r \in Slots, RemoveUser(r)
    PROVE  Flow(r) /\ req'[r].pc = "purge_refresh" /\ req'[r].mark = nextId
<1>1. ReqType /\ req[r] \in Request /\ req[r].pc = "remove" /\ nextId \in Nat
  BY DEF Basics, TypeOK, ReqType, RemoveUser, At
<1>2. req[r].user \in Ids
  BY <1>1 DEF Basics, UserKnown, HasUser
<1>3. Live(req[r].user) \in BOOLEAN
  BY <1>2 DEF Live, Basics, TypeOK, User
<1>4. PICK b \in BOOLEAN : b = Live(req[r].user)
  BY <1>3
<1> DEFINE p == [req[r] EXCEPT !.pc = "purge_refresh", !.ok = b, !.mark = nextId]
<1>5. /\ p \in Request /\ p.pc = "purge_refresh" /\ p.handler = req[r].handler /\ p.old = req[r].old
      /\ p.name = req[r].name /\ p.email = req[r].email /\ p.user = req[r].user
      /\ p.mark = nextId /\ p.new = req[r].new
  BY <1>1 DEF Request, Labels
<1>6. Step(r, p)
  BY <1>4 DEF RemoveUser
<1> HIDE DEF p
<1>7. Edge(req[r], p.pc)
  BY <1>1, <1>5 DEF Edge
<1>8. Flow(r) /\ req'[r] = p
  BY <1>1, <1>5, <1>6, <1>7, SettingFlow
<1>9. QED
  BY <1>5, <1>8

LEMMA HandlerFlow == ASSUME Basics, NEW r \in Slots, Handler(r) PROVE Flow(r)
BY PlainFlow, PlainFlowToo, FindUserFlow, CreateUserFlow, IssueAccessFlow, IssueRefreshFlow,
   MatchSessionFlow, SetPasswordFlow, ConvertFlow, ReloadFlow, PurgeAccessFlow, RemoveUserFlow
   DEF Handler

(***************************************************************************)
(* The requests the endpoints begin with.                                  *)
(***************************************************************************)
\* What all of them have in common: the first label of the handler, whose
\* account is known where it must be, and tokens only where they come from
\* the browser or with a code.
Opens(p) ==
    /\ p \in Request /\ p.mark = 0
    /\ \/ p.handler = "signup" /\ p.pc = "name"
       \/ p.handler = "guest" /\ p.pc = "create" /\ p.email = Synthetic
       \/ p.handler = "google" /\ p.pc = "find" /\ p.email \in Emails
       \/ p.handler = "login" /\ p.pc = "access"
       \/ p.handler = "refresh" /\ p.pc = "match"
       \/ p.handler = "logout" /\ p.pc = "drop_access"
       \/ p.handler = "reset" /\ p.pc = "password"
       \/ p.handler = "upgrade" /\ p.pc = "email_free"
       \/ p.handler = "verify" /\ p.pc = "verify"
       \/ p.handler = "resend" /\ p.pc = "verification"
       \/ p.handler = "rename" /\ p.pc = "name_owner"
       \/ p.handler = "remove" /\ p.pc = "remove"
       \/ p.handler = "exchange" /\ p.pc = "pick_up"
    /\ p.pc \in HasUser => p.user \in Ids
    /\ p.handler \notin {"refresh", "logout"} => p.old = NoPair
    /\ p.handler # "exchange" => p.new = NoPair

Opened(r) ==
    /\ req[r].pc = "idle" /\ Opens(req'[r])
    /\ req' \in [Slots -> Request]
    /\ \A s \in Slots : s # r => req'[s] = req[s]

LEMMA BeginOpens ==
    ASSUME ReqType, NEW r \in Slots, NEW p, Opens(p), Begin(r, p)
    PROVE  Opened(r) /\ req'[r] = p
BY StepSlot DEF Begin, Opened, Opens, At

LEMMA IdleFields ==
    /\ Idle.user = 0 /\ Idle.email = Synthetic /\ Idle.name = Handle /\ Idle.ok = FALSE
    /\ Idle.old = NoPair /\ Idle.new = NoPair /\ Idle.item = 0 /\ Idle.mark = 0 /\ Idle.pc = "idle"
BY DEF Idle

LEMMA SignupOpens ==
    ASSUME Basics, NEW r \in Slots, SignupBegin(r)
    PROVE  Opened(r) /\ req'[r].pc = "name"
<1>1. PICK e \in Emails, n \in Names :
          Begin(r, [Idle EXCEPT !.pc = "name", !.handler = "signup", !.email = e, !.name = n])
  BY DEF SignupBegin
<1> DEFINE p == [Idle EXCEPT !.pc = "name", !.handler = "signup", !.email = e, !.name = n]
<1>2. Opens(p) /\ p.pc = "name"
  <2>1. /\ p \in Request /\ p.mark = 0 /\ p.handler = "signup" /\ p.old = NoPair /\ p.new = NoPair
        /\ p.user = 0 /\ p.email = e /\ p.pc = "name"
    BY IdleType, IdleFields DEF Request, Labels, Endpoints, Provisioning
  <2> HIDE DEF p
  <2>2. QED
    BY <2>1 DEF Opens, HasUser
<1> HIDE DEF p
<1>3. QED
  BY <1>1, <1>2, BeginOpens DEF p, Basics, TypeOK, ReqType

LEMMA GuestOpens ==
    ASSUME Basics, NEW r \in Slots, GuestBegin(r)
    PROVE  Opened(r) /\ req'[r].pc = "create"
<1> DEFINE p == [Idle EXCEPT !.pc = "create", !.handler = "guest"]
<1>1. Opens(p) /\ p.pc = "create"
  <2>1. /\ p \in Request /\ p.mark = 0 /\ p.handler = "guest" /\ p.old = NoPair /\ p.new = NoPair
        /\ p.user = 0 /\ p.email = Synthetic /\ p.pc = "create"
    BY IdleType, IdleFields DEF Request, Labels, Endpoints, Provisioning
  <2> HIDE DEF p
  <2>2. QED
    BY <2>1 DEF Opens, HasUser
<1>2. Begin(r, p)
  BY DEF GuestBegin
<1> HIDE DEF p
<1>3. QED
  BY <1>1, <1>2, BeginOpens DEF Basics, TypeOK, ReqType

LEMMA CallbackOpens ==
    ASSUME Basics, NEW r \in Slots, CallbackBegin(r)
    PROVE  Opened(r) /\ req'[r].pc = "find"
<1>1. PICK g \in GoogleProfile :
          Begin(r, [Idle EXCEPT !.pc = "find", !.handler = "google", !.email = g.email, !.ok = g.verified])
  BY DEF CallbackBegin
<1>2. g.email \in Emails /\ g.verified \in BOOLEAN
  BY DEF GoogleProfile
<1> DEFINE p == [Idle EXCEPT !.pc = "find", !.handler = "google", !.email = g.email, !.ok = g.verified]
<1>3. Opens(p) /\ p.pc = "find"
  <2>1. /\ p \in Request /\ p.mark = 0 /\ p.handler = "google" /\ p.old = NoPair /\ p.new = NoPair
        /\ p.user = 0 /\ p.email = g.email /\ p.pc = "find"
    BY <1>2, IdleType, IdleFields DEF Request, Labels, Endpoints, Provisioning
  <2> HIDE DEF p
  <2>2. QED
    BY <1>2, <2>1 DEF Opens, HasUser
<1> HIDE DEF p
<1>4. QED
  BY <1>1, <1>3, BeginOpens DEF p, Basics, TypeOK, ReqType

LEMMA ExchangeOpens ==
    ASSUME Basics, NEW r \in Slots, ExchangeBegin(r)
    PROVE  /\ Opened(r) /\ req'[r].pc = "pick_up" /\ req'[r].old = NoPair
           /\ \E k \in codes : /\ k.client = Client(r) /\ codes' = codes \ {k}
                               /\ req'[r].new = k.pair
<1>1. PICK k \in codes :
          /\ k.client = Client(r) /\ codes' = codes \ {k}
          /\ Begin(r, [Idle EXCEPT !.pc = "pick_up", !.handler = "exchange", !.user = k.user,
                                   !.new = k.pair])
  BY DEF ExchangeBegin
<1>2. k.user \in Ids /\ k.pair \in Pair
  BY DEF Basics, TypeOK
<1> DEFINE p == [Idle EXCEPT !.pc = "pick_up", !.handler = "exchange", !.user = k.user, !.new = k.pair]
<1>3. Opens(p) /\ p.pc = "pick_up" /\ p.new = k.pair /\ p.old = NoPair
  <2>1. /\ p \in Request /\ p.mark = 0 /\ p.handler = "exchange" /\ p.old = NoPair /\ p.user = k.user
        /\ p.email = Synthetic /\ p.pc = "pick_up" /\ p.new = k.pair
    BY <1>2, IdleType, IdleFields DEF Request, Labels, Endpoints, Provisioning
  <2> HIDE DEF p
  <2>2. QED
    BY <1>2, <2>1 DEF Opens, HasUser
<1> HIDE DEF p
<1>4. Opened(r) /\ req'[r] = p
  BY <1>1, <1>3, BeginOpens DEF p, Basics, TypeOK, ReqType
<1>5. QED
  BY <1>1, <1>3, <1>4

LEMMA LoginOpens ==
    ASSUME Basics, NEW r \in Slots, LoginBegin(r)
    PROVE  Opened(r) /\ req'[r].pc = "access"
<1>1. PICK u \in Ids : Begin(r, [Idle EXCEPT !.pc = "access", !.handler = "login", !.user = u])
  BY DEF LoginBegin
<1> DEFINE p == [Idle EXCEPT !.pc = "access", !.handler = "login", !.user = u]
<1>2. Opens(p) /\ p.pc = "access"
  <2>1. /\ p \in Request /\ p.mark = 0 /\ p.handler = "login" /\ p.old = NoPair /\ p.new = NoPair
        /\ p.user = u /\ p.email = Synthetic /\ p.pc = "access"
    BY IdleType, IdleFields DEF Request, Labels, Endpoints, Provisioning
  <2> HIDE DEF p
  <2>2. QED
    BY <2>1 DEF Opens, HasUser
<1> HIDE DEF p
<1>3. QED
  BY <1>1, <1>2, BeginOpens DEF p, Basics, TypeOK, ReqType

\* A refresh names a token the browser keeps, and the access token that goes
\* with the cookie.
LEMMA RefreshOpens ==
    ASSUME Basics, NEW r \in Slots, RefreshBegin(r)
    PROVE  /\ Opened(r) /\ req'[r].pc = "match"
           /\ req'[r].old.refresh \in kept[Client(r)]
           /\ \E t \in RefreshToken(jar[Client(r)].refresh) :
                 req'[r].old.access = IF jar[Client(r)].access # 0 THEN jar[Client(r)].access ELSE t.prev
<1>1. PICK t \in RefreshToken(jar[Client(r)].refresh), body \in kept[Client(r)] :
          Begin(r, [Idle EXCEPT !.pc = "match", !.handler = "refresh",
                          !.old = [access  |-> IF jar[Client(r)].access # 0 THEN jar[Client(r)].access
                                               ELSE t.prev,
                                   refresh |-> body]])
  BY DEF RefreshBegin
<1> DEFINE o == [access  |-> IF jar[Client(r)].access # 0 THEN jar[Client(r)].access ELSE t.prev,
                 refresh |-> body]
           p == [Idle EXCEPT !.pc = "match", !.handler = "refresh", !.old = o]
<1>2. Client(r) \in Clients
  BY AccountsAssumption DEF Client
<1>3. body \in Nat /\ jar[Client(r)].access \in Nat /\ t.prev \in Nat
  BY <1>2 DEF Basics, TypeOK, RefreshToken, Refresh, Pair
<1>4. o \in Pair
  BY <1>3 DEF Pair
<1>5. o.refresh = body /\ o.access = IF jar[Client(r)].access # 0 THEN jar[Client(r)].access ELSE t.prev
  OBVIOUS
<1>6. Begin(r, p)
  BY <1>1
<1> HIDE DEF o
<1>7. Opens(p) /\ p.pc = "match" /\ p.old = o
  <2>1. /\ p \in Request /\ p.mark = 0 /\ p.handler = "refresh" /\ p.new = NoPair /\ p.user = 0
        /\ p.email = Synthetic /\ p.pc = "match" /\ p.old = o
    BY <1>4, IdleType, IdleFields DEF Request, Labels, Endpoints, Provisioning
  <2> HIDE DEF p
  <2>2. QED
    BY <1>4, <2>1 DEF Opens, HasUser
<1> HIDE DEF p
<1>8. Opened(r) /\ req'[r] = p
  BY <1>6, <1>7, BeginOpens DEF Basics, TypeOK, ReqType
<1>9. QED
  BY <1>5, <1>7, <1>8

LEMMA LogoutOpens ==
    ASSUME Basics, NEW r \in Slots, LogoutBegin(r)
    PROVE  Opened(r) /\ req'[r].pc = "drop_access" /\ req'[r].handler = "logout" /\ req'[r].old = jar[Client(r)]
<1> DEFINE p == [Idle EXCEPT !.pc = "drop_access", !.handler = "logout", !.old = jar[Client(r)]]
<1>1. jar[Client(r)] \in Pair
  BY AccountsAssumption DEF Client, Basics, TypeOK
<1>2. Opens(p) /\ p.pc = "drop_access" /\ p.handler = "logout" /\ p.old = jar[Client(r)]
  <2>1. /\ p \in Request /\ p.mark = 0 /\ p.handler = "logout" /\ p.new = NoPair /\ p.user = 0
        /\ p.email = Synthetic /\ p.pc = "drop_access" /\ p.old = jar[Client(r)]
    BY <1>1, IdleType, IdleFields DEF Request, Labels, Endpoints, Provisioning
  <2> HIDE DEF p
  <2>2. QED
    BY <1>1, <2>1 DEF Opens, HasUser
<1>3. Begin(r, p)
  BY DEF LogoutBegin
<1> HIDE DEF p
<1>4. Opened(r) /\ req'[r] = p
  BY <1>2, <1>3, BeginOpens DEF Basics, TypeOK, ReqType
<1>5. QED
  BY <1>2, <1>4

LEMMA ConfirmOpens ==
    ASSUME Basics, NEW r \in Slots, ConfirmBegin(r)
    PROVE  Opened(r) /\ req'[r].pc = "password"
<1>1. PICK k \in resets :
          Begin(r, [Idle EXCEPT !.pc = "password", !.handler = "reset", !.user = k.user, !.item = k.id])
  BY DEF ConfirmBegin
<1>2. k.user \in Ids /\ k.id \in Nat
  BY DEF Basics, TypeOK
<1> DEFINE p == [Idle EXCEPT !.pc = "password", !.handler = "reset", !.user = k.user, !.item = k.id]
<1>3. Opens(p) /\ p.pc = "password"
  <2>1. /\ p \in Request /\ p.mark = 0 /\ p.handler = "reset" /\ p.old = NoPair /\ p.new = NoPair
        /\ p.user = k.user /\ p.email = Synthetic /\ p.pc = "password"
    BY <1>2, IdleType, IdleFields DEF Request, Labels, Endpoints, Provisioning
  <2> HIDE DEF p
  <2>2. QED
    BY <1>2, <2>1 DEF Opens, HasUser
<1> HIDE DEF p
<1>4. QED
  BY <1>1, <1>3, BeginOpens DEF p, Basics, TypeOK, ReqType

\* The user an access token belongs to.
LEMMA CallerType == Basics => \A r \in Slots : Caller(r) \subseteq Ids
BY DEF Basics, TypeOK, Caller, Access

LEMMA UpgradeOpens ==
    ASSUME Basics, NEW r \in Slots, UpgradeBegin(r)
    PROVE  /\ Opened(r) /\ req'[r].pc = "email_free" /\ req'[r].handler = "upgrade"
           /\ Live(req'[r].user) /\ users[req'[r].user].guest
           /\ req'[r].email \in Emails
<1>1. PICK u \in Caller(r), e \in Emails : \E n \in Names \cup {users[u].name} :
          /\ Live(u) /\ users[u].guest
          /\ Begin(r, [Idle EXCEPT !.pc = "email_free", !.handler = "upgrade", !.user = u,
                                   !.email = LowerCase[e], !.name = n])
  BY DEF UpgradeBegin
<1>2. PICK n \in Names \cup {users[u].name} :
          /\ Live(u) /\ users[u].guest
          /\ Begin(r, [Idle EXCEPT !.pc = "email_free", !.handler = "upgrade", !.user = u,
                                   !.email = LowerCase[e], !.name = n])
  BY <1>1
<1>3. u \in Ids /\ LowerCase[e] \in Emails
  BY CallerType, AccountsAssumption
<1>4. n \in Names \cup {Handle}
  BY <1>3 DEF Basics, TypeOK, User
<1> DEFINE p == [Idle EXCEPT !.pc = "email_free", !.handler = "upgrade", !.user = u,
                             !.email = LowerCase[e], !.name = n]
<1>5. Opens(p) /\ p.pc = "email_free" /\ p.user = u /\ p.email = LowerCase[e] /\ p.handler = "upgrade"
  <2>1. /\ p \in Request /\ p.mark = 0 /\ p.handler = "upgrade" /\ p.old = NoPair /\ p.new = NoPair
        /\ p.user = u /\ p.email = LowerCase[e] /\ p.pc = "email_free"
    BY <1>3, <1>4, IdleType, IdleFields DEF Request, Labels, Endpoints, Provisioning
  <2> HIDE DEF p
  <2>2. QED
    BY <1>3, <1>4, <2>1 DEF Opens, HasUser
<1> HIDE DEF p
<1>6. Opened(r) /\ req'[r] = p
  BY <1>2, <1>5, BeginOpens DEF p, Basics, TypeOK, ReqType
<1>7. QED
  BY <1>2, <1>3, <1>5, <1>6

LEMMA VerifyOpens ==
    ASSUME Basics, NEW r \in Slots, VerifyBegin(r)
    PROVE  /\ Opened(r) /\ req'[r].pc = "verify" /\ req'[r].handler = "verify"
           /\ \E v \in verifs : v.to \in Emails /\ req'[r].user = v.user /\ req'[r].email = v.to
<1>1. PICK v \in verifs :
          /\ v.to \in Emails
          /\ Begin(r, [Idle EXCEPT !.pc = "verify", !.handler = "verify", !.user = v.user,
                                   !.email = v.to, !.item = v.id])
  BY DEF VerifyBegin
<1>2. v.user \in Ids /\ v.id \in Nat
  BY DEF Basics, TypeOK
<1> DEFINE p == [Idle EXCEPT !.pc = "verify", !.handler = "verify", !.user = v.user,
                             !.email = v.to, !.item = v.id]
<1>3. Opens(p) /\ p.pc = "verify" /\ p.handler = "verify" /\ p.user = v.user /\ p.email = v.to
  <2>1. /\ p \in Request /\ p.mark = 0 /\ p.handler = "verify" /\ p.old = NoPair /\ p.new = NoPair
        /\ p.user = v.user /\ p.email = v.to /\ p.pc = "verify"
    BY <1>1, <1>2, IdleType, IdleFields DEF Request, Labels, Endpoints, Provisioning
  <2> HIDE DEF p
  <2>2. QED
    BY <1>1, <1>2, <2>1 DEF Opens, HasUser
<1> HIDE DEF p
<1>4. Opened(r) /\ req'[r] = p
  BY <1>1, <1>3, BeginOpens DEF p, Basics, TypeOK, ReqType
<1>5. QED
  BY <1>1, <1>3, <1>4

LEMMA ResendOpens ==
    ASSUME Basics, NEW r \in Slots, ResendBegin(r)
    PROVE  /\ Opened(r) /\ req'[r].pc = "verification" /\ req'[r].handler = "resend"
           /\ Live(req'[r].user) /\ req'[r].email = users[req'[r].user].email
<1>1. PICK u \in Caller(r) :
          /\ Live(u)
          /\ Begin(r, [Idle EXCEPT !.pc = "verification", !.handler = "resend", !.user = u,
                                   !.email = users[u].email])
  BY DEF ResendBegin
<1>2. u \in Ids
  BY CallerType
<1>3. users[u].email \in Emails \cup {Synthetic}
  BY <1>2 DEF Basics, TypeOK, User
<1> DEFINE p == [Idle EXCEPT !.pc = "verification", !.handler = "resend", !.user = u,
                             !.email = users[u].email]
<1>4. /\ Opens(p) /\ p.pc = "verification" /\ p.handler = "resend" /\ p.user = u
      /\ p.email = users[u].email
  <2>1. /\ p \in Request /\ p.mark = 0 /\ p.handler = "resend" /\ p.old = NoPair /\ p.new = NoPair
        /\ p.user = u /\ p.email = users[u].email /\ p.pc = "verification"
    BY <1>2, <1>3, IdleType, IdleFields DEF Request, Labels, Endpoints, Provisioning
  <2> HIDE DEF p
  <2>2. QED
    BY <1>2, <1>3, <2>1 DEF Opens, HasUser
<1> HIDE DEF p
<1>5. Opened(r) /\ req'[r] = p
  BY <1>1, <1>4, BeginOpens DEF p, Basics, TypeOK, ReqType
<1>6. QED
  BY <1>1, <1>4, <1>5

LEMMA RenameOpens ==
    ASSUME Basics, NEW r \in Slots, RenameBegin(r)
    PROVE  /\ Opened(r) /\ req'[r].pc = "name_owner" /\ req'[r].handler = "rename"
           /\ Live(req'[r].user)
           /\ users[req'[r].user].guest => req'[r].name = users[req'[r].user].name
<1>1. PICK u \in Caller(r), n \in Names :
          /\ Live(u) /\ (users[u].guest => n = users[u].name)
          /\ Begin(r, [Idle EXCEPT !.pc = "name_owner", !.handler = "rename", !.user = u, !.name = n])
  BY DEF RenameBegin
<1>2. u \in Ids
  BY CallerType
<1> DEFINE p == [Idle EXCEPT !.pc = "name_owner", !.handler = "rename", !.user = u, !.name = n]
<1>3. Opens(p) /\ p.pc = "name_owner" /\ p.handler = "rename" /\ p.user = u /\ p.name = n
  <2>1. /\ p \in Request /\ p.mark = 0 /\ p.handler = "rename" /\ p.old = NoPair /\ p.new = NoPair
        /\ p.user = u /\ p.email = Synthetic /\ p.pc = "name_owner" /\ p.name = n
    BY <1>2, IdleType, IdleFields DEF Request, Labels, Endpoints, Provisioning
  <2> HIDE DEF p
  <2>2. QED
    BY <1>2, <2>1 DEF Opens, HasUser
<1> HIDE DEF p
<1>4. Opened(r) /\ req'[r] = p
  BY <1>1, <1>3, BeginOpens DEF p, Basics, TypeOK, ReqType
<1>5. QED
  BY <1>1, <1>3, <1>4

LEMMA RemoveOpens ==
    ASSUME Basics, NEW r \in Slots, RemoveBegin(r)
    PROVE  Opened(r) /\ req'[r].pc = "remove"
<1>1. PICK u \in Caller(r) : Begin(r, [Idle EXCEPT !.pc = "remove", !.handler = "remove", !.user = u])
  BY DEF RemoveBegin
<1>2. u \in Ids
  BY CallerType
<1> DEFINE p == [Idle EXCEPT !.pc = "remove", !.handler = "remove", !.user = u]
<1>3. Opens(p) /\ p.pc = "remove"
  <2>1. /\ p \in Request /\ p.mark = 0 /\ p.handler = "remove" /\ p.old = NoPair /\ p.new = NoPair
        /\ p.user = u /\ p.email = Synthetic /\ p.pc = "remove"
    BY <1>2, IdleType, IdleFields DEF Request, Labels, Endpoints, Provisioning
  <2> HIDE DEF p
  <2>2. QED
    BY <1>2, <2>1 DEF Opens, HasUser
<1> HIDE DEF p
<1>4. QED
  BY <1>1, <1>3, BeginOpens DEF p, Basics, TypeOK, ReqType

LEMMA CallOpens == ASSUME Basics, NEW r \in Slots, Call(r) PROVE Opened(r)
BY SignupOpens, GuestOpens, CallbackOpens, ExchangeOpens, LoginOpens, RefreshOpens, LogoutOpens,
   ConfirmOpens, UpgradeOpens, VerifyOpens, ResendOpens, RenameOpens, RemoveOpens DEF Call

(***************************************************************************)
(* Which steps write what.                                                 *)
(***************************************************************************)
LEMMA PeopleWriters ==
    ASSUME NEW r \in Slots, Handler(r)
    PROVE  \/ /\ UNCHANGED <<users, nextUser, kit, closed, proven>>
              /\ req[r].pc \notin {"create", "kit", "undo", "undo_kit"}
           \/ Fail(r) \/ GoogleVerify(r) \/ CreateUser(r) \/ AddResource(r) \/ UndoUser(r) \/ UndoKit(r)
           \/ Convert(r) \/ SetVerified(r) \/ Rename(r) \/ RemoveUser(r)
BY DEF Handler, CheckName, FindUser, IssueAccess, IssueRefresh, ReadBack, SendVerification,
   StoreExchange, PickUp, Reply, ClearJar, MatchSession, DropAccess, RejectRefresh, DropRefresh,
   SkipDelete, SetPassword, SpendReset, PurgeRefresh, PurgeAccess, CheckUpgrade, Reload,
   MarkVerified, CheckRename, At

LEMMA TokenWriters ==
    ASSUME NEW r \in Slots, Handler(r)
    PROVE  \/ UNCHANGED <<access, refresh, nextId, purged, cutoff>>
           \/ IssueAccess(r) \/ IssueRefresh(r) \/ SendVerification(r) \/ DropAccess(r)
           \/ RejectRefresh(r) \/ DropRefresh(r) \/ PurgeRefresh(r) \/ PurgeAccess(r)
BY DEF Handler, CheckName, FindUser, GoogleVerify, CreateUser, AddResource, Fail, UndoUser, UndoKit,
   ReadBack, StoreExchange, PickUp, Reply, ClearJar, MatchSession, SkipDelete, SetPassword,
   SpendReset, CheckUpgrade, Convert, Reload, SetVerified, MarkVerified, CheckRename, Rename,
   RemoveUser

LEMMA MailWriters ==
    ASSUME NEW r \in Slots, Handler(r)
    PROVE  \/ UNCHANGED <<verifs, resets, states, codes>>
           \/ UndoKit(r) \/ SendVerification(r) \/ SpendReset(r) \/ MarkVerified(r)
           \/ StoreExchange(r)
BY DEF Handler, CheckName, FindUser, GoogleVerify, CreateUser, AddResource, Fail, UndoUser,
   IssueAccess, IssueRefresh, ReadBack, PickUp, Reply, ClearJar, MatchSession, DropAccess,
   RejectRefresh, DropRefresh, SkipDelete, SetPassword, PurgeRefresh, PurgeAccess, CheckUpgrade,
   Convert, Reload, SetVerified, CheckRename, Rename, RemoveUser

LEMMA BrowserWriters ==
    ASSUME NEW r \in Slots, Handler(r)
    PROVE  UNCHANGED <<jar, kept>> \/ Reply(r) \/ ClearJar(r)
BY DEF Handler, CheckName, FindUser, GoogleVerify, CreateUser, AddResource, Fail, UndoUser, UndoKit,
   IssueAccess, IssueRefresh, ReadBack, SendVerification, StoreExchange, PickUp, MatchSession,
   DropAccess, RejectRefresh, DropRefresh, SkipDelete, SetPassword, SpendReset, PurgeRefresh,
   PurgeAccess, CheckUpgrade, Convert, Reload, SetVerified, MarkVerified, CheckRename, Rename,
   RemoveUser

LEMMA CounterWriters ==
    ASSUME NEW r \in Slots, Handler(r)
    PROVE  UNCHANGED <<calls, kills, torn>> /\ (UNCHANGED errors \/ errors' = errors + 1)
BY DEF Handler, CheckName, FindUser, GoogleVerify, CreateUser, AddResource, Fail, UndoUser, UndoKit,
   IssueAccess, IssueRefresh, ReadBack, SendVerification, StoreExchange, PickUp, Reply, ClearJar,
   MatchSession, DropAccess, RejectRefresh, DropRefresh, SkipDelete, SetPassword, SpendReset,
   PurgeRefresh, PurgeAccess, CheckUpgrade, Convert, Reload, SetVerified, MarkVerified,
   CheckRename, Rename, RemoveUser

\* Calls write next to nothing but their slot.
LEMMA CallWrites ==
    ASSUME NEW r \in Slots, Call(r)
    PROVE  /\ UNCHANGED <<people, tokens, mailbox, browser, errors, kills, history>>
           /\ calls' = calls + 1
           /\ UNCHANGED <<states, codes>> \/ ExchangeBegin(r) \/ (ConsumeState /\ UNCHANGED codes)
BY DEF Call, SignupBegin, GuestBegin, CallbackBegin, ExchangeBegin, LoginBegin, RefreshBegin,
   LogoutBegin, ConfirmBegin, UpgradeBegin, VerifyBegin, ResendBegin, RenameBegin, RemoveBegin,
   Begin, Count

\* Whoever moves a request notes what is contested then.
Recorded == contested' = contested \cup Contests(req') \/ UNCHANGED flight

LEMMA MovesRecorded ==
    ASSUME NEW r \in Slots
    PROVE  /\ \A q : Step(r, q) => Recorded
           /\ \A l : Goto(r, l) => Recorded
           /\ Return(r) \/ Raise(r) => Recorded
<1>1. \A q : Step(r, q) => Recorded
  BY DEF Step, Recorded
<1>2. (\A l : Goto(r, l) => Recorded) /\ (Return(r) => Recorded)
  BY <1>1 DEF Goto, Return
<1>3. QED
  BY <1>1, <1>2 DEF Raise

LEMMA HandlerRecords == ASSUME NEW r \in Slots, Handler(r) PROVE Recorded
<1>1. UNCHANGED flight => Recorded
  BY DEF Recorded
<1>2. QED
  BY <1>1, MovesRecorded
     DEF Handler, CheckName, FindUser, GoogleVerify, CreateUser, AddResource, Fail, UndoUser, UndoKit,
     IssueAccess, IssueRefresh, ReadBack, SendVerification, StoreExchange, PickUp, Reply, ClearJar,
     MatchSession, DropAccess, RejectRefresh, DropRefresh, SkipDelete, SetPassword, SpendReset,
     PurgeRefresh, PurgeAccess, CheckUpgrade, Convert, Reload, SetVerified, MarkVerified,
     CheckRename, Rename, RemoveUser

LEMMA CallRecords == ASSUME NEW r \in Slots, Call(r) \/ Kill(r) PROVE Recorded
<1>1. \A q : Begin(r, q) => Recorded
  BY MovesRecorded DEF Begin
<1>2. QED
  BY <1>1, MovesRecorded
     DEF Call, Kill, SignupBegin, GuestBegin, CallbackBegin, ExchangeBegin, LoginBegin, RefreshBegin,
     LogoutBegin, ConfirmBegin, UpgradeBegin, VerifyBegin, ResendBegin, RenameBegin, RemoveBegin

LEMMA RecordedTyped ==
    ASSUME Recorded, contested \subseteq ({"email"} \X Emails) \cup ({"name"} \X Names)
    PROVE  contested' \subseteq ({"email"} \X Emails) \cup ({"name"} \X Names)
BY DEF Recorded, Contests

(***************************************************************************)
(* Who builds an account, and how far it is.                               *)
(***************************************************************************)
\* A provisioning request that has inserted the user and may still add to its
\* kit or take it back.
Making(q) ==
    \/ q.pc \in {"kit", "undo", "undo_kit"} /\ q.handler \in Provisioning
    \/ q.pc \in {"access", "refresh", "read_back"} /\ q.handler \in {"signup", "guest"}
    \/ q.pc = "verification" /\ q.handler = "signup"

\* The handlers some labels belong to.
HandledBy(q) ==
    /\ q.pc = "name" => q.handler = "signup"
    /\ q.pc \in {"create", "kit", "undo", "undo_kit"} => q.handler \in Provisioning
    /\ q.pc \in {"find", "google_verify"} => q.handler = "google"
    /\ q.pc = "match" => q.handler = "refresh"
    /\ q.pc \in {"email_free", "convert", "reload"} => q.handler = "upgrade"
    /\ q.pc \in {"password", "spend"} => q.handler = "reset"
    /\ q.pc = "remove" => q.handler = "remove"

Handled == \A r \in Slots : HandledBy(req[r])

Stage(r) ==
    Making(req[r]) =>
        /\ req[r].user < nextUser
        /\ req[r].pc = "kit" => kit[req[r].user] < 4
        /\ req[r].pc \in {"access", "refresh", "read_back", "verification"} => kit[req[r].user] = 4
        /\ req[r].pc \in {"kit", "access", "refresh", "read_back", "verification"} =>
              Live(req[r].user) \/ req[r].user \in closed
        /\ req[r].pc = "undo_kit" => ~Live(req[r].user)

\* One request at most builds an account.
SoleMaker == \A r, s \in Slots :
    Making(req[r]) /\ Making(req[s]) /\ req[r].user = req[s].user => r = s

\* What was never inserted is nobody's.
Unborn == \A u \in Ids : u >= nextUser => users[u] = Nobody /\ kit[u] = 0

TInv == Basics /\ Handled /\ (\A r \in Slots : Stage(r)) /\ SoleMaker /\ Unborn

LEMMA MakingKnown == ASSUME UserKnown, NEW r \in Slots, Making(req[r]) PROVE req[r].user \in Ids
BY DEF UserKnown, Making, HasUser

LEMMA HandledFlow ==
    ASSUME Handled, NEW r \in Slots, Flow(r)
    PROVE  Handled'
<1>1. HandledBy(req[r])
  BY DEF Handled
<1>2. HandledBy(req'[r])
  BY <1>1, IdleFields DEF Flow, Follows, Edge, HandledBy, Provisioning
<1>3. \A s \in Slots : s # r => HandledBy(req'[s])
  BY DEF Handled, Flow
<1>4. QED
  BY <1>2, <1>3 DEF Handled, HandledBy

LEMMA HandledOpened ==
    ASSUME Handled, NEW r \in Slots, Opened(r)
    PROVE  Handled'
<1>1. HandledBy(req'[r])
  BY DEF Opened, Opens, HandledBy, Provisioning
<1>2. \A s \in Slots : s # r => HandledBy(req'[s])
  BY DEF Handled, Opened
<1>3. QED
  BY <1>1, <1>2 DEF Handled, HandledBy

\* Whoever builds after a step built before it or has just inserted the user.
LEMMA MakingFlow ==
    ASSUME Handled, NEW r \in Slots, Flow(r), Making(req'[r])
    PROVE  \/ Making(req[r]) /\ req'[r].user = req[r].user
           \/ req[r].pc = "create"
BY IdleFields DEF Handled, HandledBy, Flow, Follows, Edge, Making

LEMMA MakingOpened ==
    ASSUME NEW r \in Slots, Opened(r)
    PROVE  ~Making(req'[r])
BY DEF Opened, Opens, Making, Provisioning

\* The account of a step that is past the check stays known.
LEMMA KnownFlow ==
    ASSUME UserKnown, NEW r \in Slots, Flow(r),
           req[r].pc \in {"find", "create", "match"} /\ req'[r].pc \in HasUser => req'[r].user \in Ids
    PROVE  UserKnown'
<1>1. req'[r].pc \in HasUser => req'[r].user \in Ids
  BY IdleFields DEF Flow, Follows, Edge, UserKnown, HasUser
<1>2. QED
  BY <1>1 DEF Flow, UserKnown

\* Updates of an account that leave it alive or dead as it is.
LEMMA LiveKept ==
    ASSUME TInv, NEW r \in Slots, GoogleVerify(r) \/ Convert(r) \/ SetVerified(r) \/ Rename(r)
    PROVE  /\ users' \in [Ids -> User] /\ UNCHANGED <<nextUser, kit, closed>>
           /\ \A u \in Ids : users'[u].live = users[u].live
           /\ Unborn'
<1>1. req[r] \in Request /\ req[r].user \in Ids
  BY DEF TInv, Basics, TypeOK, UserKnown, HasUser, GoogleVerify, Convert, SetVerified, Rename, At
<1>2. PICK u \in Ids : u = req[r].user
  BY <1>1
<1>3. users \in [Ids -> User] /\ users[u] \in User /\ UNCHANGED <<nextUser, kit, closed>>
  BY DEF TInv, Basics, TypeOK, GoogleVerify, Convert, SetVerified, Rename
<1>4. PICK d \in User : d.live = users[u].live /\ (Live(u) => users' = [users EXCEPT ![u] = d])
  <2>1. CASE GoogleVerify(r) \/ SetVerified(r)
    <3> DEFINE d == [users[u] EXCEPT !.verified = TRUE]
    <3>1. d \in User /\ d.live = users[u].live
      BY <1>3 DEF User
    <3>2. Live(u) => users' = [users EXCEPT ![u] = d]
      BY <1>2, <2>1 DEF GoogleVerify, SetVerified
    <3>3. QED
      BY <3>1, <3>2
  <2>2. CASE Convert(r)
    <3> DEFINE d == [users[u] EXCEPT !.email = req[r].email, !.name = req[r].name, !.guest = FALSE, !.verified = FALSE]
    <3>1. d \in User /\ d.live = users[u].live
      BY <1>1, <1>3 DEF User, Request
    <3>2. Live(u) => users' = [users EXCEPT ![u] = d]
      BY <1>2, <2>2 DEF Convert
    <3>3. QED
      BY <3>1, <3>2
  <2>3. CASE Rename(r)
    <3> DEFINE d == [users[u] EXCEPT !.name = req[r].name]
    <3>1. d \in User /\ d.live = users[u].live
      BY <1>1, <1>3 DEF User, Request
    <3>2. Live(u) => users' = [users EXCEPT ![u] = d]
      BY <1>2, <2>3 DEF Rename
    <3>3. QED
      BY <3>1, <3>2
  <2>4. QED
    BY <2>1, <2>2, <2>3
<1>5. ~Live(u) => users' = users
  BY <1>2 DEF GoogleVerify, Convert, SetVerified, Rename
<1>6. users' \in [Ids -> User] /\ \A v \in Ids : users'[v].live = users[v].live
  BY <1>3, <1>4, <1>5
<1>7. \A v \in Ids : ~Live(v) => users'[v] = users[v]
  BY <1>3, <1>4, <1>5 DEF Live
<1>8. \A v \in Ids : v >= nextUser => ~Live(v)
  BY DEF TInv, Unborn, Live, Nobody
<1>9. Unborn'
  BY <1>3, <1>7, <1>8 DEF TInv, Unborn
<1>10. QED
  BY <1>3, <1>6, <1>9

LEMMA ChoosersOnly ==
    ASSUME NEW r \in Slots, Handler(r), req[r].pc \in {"find", "create", "match"}
    PROVE  FindUser(r) \/ CreateUser(r) \/ MatchSession(r)
BY DEF Handler, CheckName, GoogleVerify, AddResource, Fail, Guarded, UndoUser, UndoKit,
   IssueAccess, IssueRefresh, ReadBack, SendVerification, StoreExchange, PickUp, Reply, ClearJar,
   DropAccess, RejectRefresh, DropRefresh, SkipDelete, SetPassword, SpendReset, PurgeRefresh,
   PurgeAccess, CheckUpgrade, Convert, Reload, SetVerified, MarkVerified, CheckRename, Rename,
   RemoveUser, At

LEMMA KnownStep == ASSUME Basics, NEW r \in Slots, Handler(r) PROVE UserKnown'
<1>1. Flow(r)
  BY HandlerFlow
<1>2. CASE req[r].pc \notin {"find", "create", "match"}
  BY <1>1, <1>2, KnownFlow DEF Basics
<1>3. CASE FindUser(r)
  <2>1. req'[r].pc \in HasUser => req'[r].user \in Ids
    BY <1>3, FindUserFlow DEF WithEmail, HasUser
  <2>2. QED
    BY <1>1, <2>1, KnownFlow DEF Basics
<1>4. CASE CreateUser(r)
  BY <1>1, <1>4, CreateUserFlow, KnownFlow DEF Basics
<1>5. CASE MatchSession(r)
  <2>1. req[r].pc = "match"
    BY <1>5 DEF MatchSession, At
  <2>2. req'[r].pc \in HasUser => req'[r].user \in Ids
    BY <1>1, <1>5, <2>1, MatchSessionFlow, IdleFields DEF Flow, Follows, Edge, HasUser
  <2>3. QED
    BY <1>1, <2>2, KnownFlow DEF Basics
<1>6. QED
  BY <1>2, <1>3, <1>4, <1>5, ChoosersOnly

LEMMA KnownOpened == ASSUME UserKnown, NEW r \in Slots, Opened(r) PROVE UserKnown'
BY DEF Opened, Opens, UserKnown

\* How a step of one request leaves the builders when it inserts nobody.
LEMMA MakersKept ==
    ASSUME TInv, NEW r \in Slots, req' \in [Slots -> Request], \A s \in Slots : s # r => req'[s] = req[s],
           Making(req'[r]) => Making(req[r]) /\ req'[r].user = req[r].user
    PROVE  SoleMaker'
BY DEF TInv, SoleMaker

\* A step that writes no account keeps what is known of the builders.
LEMMA StageKept ==
    ASSUME TInv, NEW r \in Slots, Flow(r),
           nextUser' = nextUser, kit' = kit, closed' = closed,
           \A u \in Ids : users'[u].live = users[u].live,
           req[r].pc \notin {"create", "undo", "undo_kit"},
           req[r].pc = "kit" => req'[r].pc \in {"undo", "idle"}
    PROVE  (\A s \in Slots : Stage(s)') /\ SoleMaker'
<1>1. \A s \in Slots : Making(req'[s]) => Making(req[s]) /\ req'[s].user = req[s].user
  BY MakingFlow DEF TInv, Flow
<1>2. \A s \in Slots : Making(req[s]) => req[s].user \in Ids
  BY MakingKnown DEF TInv, Basics
<1>3. \A s \in Slots : s # r => Stage(s)'
  BY <1>1, <1>2 DEF TInv, Stage, Live, Flow
<1>4. Stage(r)'
  <2>1. SUFFICES ASSUME Making(req'[r]) PROVE Stage(r)'
    BY DEF Stage
  <2>2. Making(req[r]) /\ req'[r].user = req[r].user /\ req[r].user \in Ids /\ Stage(r)
    BY <1>1, <1>2, <2>1 DEF TInv
  <2>3. CASE req'[r].pc = "undo"
    BY <2>2, <2>3 DEF Stage
  <2>4. CASE req'[r].pc # "undo"
    <3>1. /\ req[r].pc \in {"access", "refresh", "read_back", "verification"}
          /\ req'[r].pc \in {"refresh", "read_back", "verification"}
      BY <2>1, <2>2, <2>4, IdleFields DEF Flow, Follows, Edge, Making
    <3>2. QED
      BY <2>2, <3>1 DEF Stage, Live
  <2>5. QED
    BY <2>3, <2>4
<1>5. SoleMaker'
  BY <1>1, MakersKept DEF Flow
<1>6. QED
  BY <1>3, <1>4, <1>5

\* What a step keeps of people.
PeopleOK ==
    /\ users \in [Ids -> User] /\ nextUser \in Nat /\ kit \in [Ids -> 0..4] /\ 1 <= nextUser
    /\ closed \subseteq Ids
    /\ (\A s \in Slots : Stage(s)) /\ SoleMaker /\ Unborn

LEMMA PeopleNow == TInv => PeopleOK
BY DEF TInv, Basics, TypeOK, PeopleOK

LEMMA FailPeople ==
    ASSUME TInv, NEW r \in Slots, Fail(r)
    PROVE  PeopleOK'
<1>1. Flow(r) /\ UNCHANGED <<users, nextUser, kit, closed>> /\ Guarded(r)
  BY PlainFlow DEF TInv, Fail
<1>2. req'[r].pc = "undo"
  BY <1>1, GotoFlow DEF Fail, Raise, TInv, Basics, TypeOK, ReqType, Guarded, Edge, Labels
<1>3. (\A s \in Slots : Stage(s)') /\ SoleMaker'
  BY <1>1, <1>2, StageKept DEF Guarded
<1>4. Unborn'
  BY <1>1 DEF TInv, Unborn
<1>5. QED
  BY <1>1, <1>3, <1>4, PeopleNow DEF PeopleOK

LEMMA CreateUserPeople ==
    ASSUME TInv, NEW r \in Slots, CreateUser(r)
    PROVE  PeopleOK'
<1>1. /\ Flow(r) /\ req'[r].pc = "kit" /\ req'[r].user = nextUser /\ nextUser \in Ids
      /\ req[r] \in Request /\ nextUser \in Nat /\ req[r].pc = "create"
  BY CreateUserFlow DEF TInv, Basics, TypeOK, CreateUser, At
<1>2. UNCHANGED <<kit, closed>> /\ nextUser' = nextUser + 1
  BY DEF CreateUser
<1>3. PICK d \in User : d.live /\ users' = [users EXCEPT ![nextUser] = d]
  <2> DEFINE d == [live |-> TRUE, email |-> req[r].email, name |-> req[r].name,
                   guest |-> req[r].handler = "guest", verified |-> req[r].ok]
  <2>1. d \in User /\ d.live
    BY <1>1 DEF User, Request
  <2>2. QED
    BY <2>1 DEF CreateUser
<1>4. /\ users' \in [Ids -> User] /\ users'[nextUser].live
      /\ \A u \in Ids : u # nextUser => users'[u] = users[u]
  BY <1>1, <1>3 DEF TInv, Basics, TypeOK
<1>5. kit[nextUser] = 0
  BY <1>1 DEF TInv, Unborn
<1>6. \A s \in Slots : Making(req[s]) => req[s].user \in Ids /\ req[s].user < nextUser
  BY MakingKnown DEF TInv, Basics, Stage
<1>7. \A s \in Slots : s # r => Stage(s)'
  <2> SUFFICES ASSUME NEW s \in Slots, s # r, Making(req[s])
               PROVE  Stage(s)'
    BY <1>1 DEF Stage, Flow
  <2>1. req[s].user \in Ids /\ req[s].user < nextUser /\ req[s].user # nextUser /\ req[s].user < nextUser + 1
    BY <1>1, <1>6 DEF Ids
  <2>2. users'[req[s].user] = users[req[s].user] /\ req'[s] = req[s] /\ Stage(s)
    BY <1>1, <1>4, <2>1 DEF Flow, TInv
  <2>3. QED
    BY <1>2, <2>1, <2>2 DEF Stage, Live
<1>8. Stage(r)'
  <2>1. nextUser < nextUser'
    BY <1>1, <1>2
  <2>2. QED
    BY <1>1, <1>2, <1>4, <1>5, <2>1 DEF Stage, Live
<1>9. SoleMaker'
  <2>1. \A s \in Slots : s # r /\ Making(req'[s]) => req'[s].user # req'[r].user
    <3> SUFFICES ASSUME NEW s \in Slots, s # r, Making(req'[s]) PROVE req'[s].user # nextUser
      BY <1>1
    <3>1. req[s].user < nextUser /\ req[s].user \in Ids /\ req'[s] = req[s]
      BY <1>1, <1>6 DEF Flow
    <3>2. QED
      BY <1>1, <3>1 DEF Ids
  <2>2. QED
    BY <1>1, <2>1 DEF TInv, SoleMaker, Flow
<1>10. Unborn'
  <2> SUFFICES ASSUME NEW u \in Ids, u >= nextUser + 1
               PROVE  users'[u] = Nobody /\ kit[u] = 0
    BY <1>2 DEF Unborn
  <2>1. u >= nextUser /\ u # nextUser
    BY <1>1 DEF Ids
  <2>2. QED
    BY <1>4, <2>1 DEF TInv, Unborn
<1>11. nextUser' \in Nat /\ 1 <= nextUser'
  BY <1>1, <1>2 DEF Ids
<1>12. kit' \in [Ids -> 0..4] /\ closed' \subseteq Ids
  BY <1>2 DEF TInv, Basics, TypeOK
<1>13. QED
  BY <1>4, <1>7, <1>8, <1>9, <1>10, <1>11, <1>12 DEF PeopleOK

LEMMA AddResourcePeople ==
    ASSUME TInv, NEW r \in Slots, AddResource(r)
    PROVE  PeopleOK'
<1>1. /\ Flow(r) /\ req[r].pc = "kit" /\ Making(req[r]) /\ Stage(r)
      /\ UNCHANGED <<users, nextUser, closed>>
  BY PlainFlow DEF TInv, AddResource, At, Handled, HandledBy, Making
<1>2. PICK u \in Ids : u = req[r].user
  BY <1>1, MakingKnown DEF TInv, Basics
<1>3. kit \in [Ids -> 0..4] /\ kit[u] \in 0..4 /\ kit[u] < 4 /\ u < nextUser
  BY <1>1, <1>2 DEF TInv, Basics, TypeOK, Stage
<1>4. kit' = [kit EXCEPT ![u] = kit[u] + 1]
  BY <1>2 DEF AddResource
<1>5. kit[u] + 1 \in 0..4
  BY <1>3
<1>6. kit' \in [Ids -> 0..4] /\ kit'[u] = kit[u] + 1 /\ \A v \in Ids : v # u => kit'[v] = kit[v]
  BY <1>3, <1>4, <1>5
<1>7. req'[r].user = u /\ (req'[r].pc = "kit" \/ (req'[r].pc = "access" /\ kit[u] = 3))
  <2>1. CASE kit[u] = 3
    <3>1. Goto(r, "access")
      BY <1>2, <2>1 DEF AddResource
    <3>2. QED
      BY <1>1, <1>2, <2>1, <3>1, GotoFlow DEF TInv, Basics, TypeOK, ReqType, Edge, Labels
  <2>2. CASE kit[u] # 3
    <3>1. req' = req
      BY <1>2, <2>2 DEF AddResource
    <3>2. req'[r].pc = req[r].pc /\ req'[r].user = req[r].user
      BY <3>1
    <3>3. req'[r].user = u
      BY <1>2, <3>2
    <3>4. req'[r].pc = "kit"
      BY <1>1, <3>2
    <3>5. QED
      BY <3>3, <3>4
  <2>3. QED
    BY <2>1, <2>2
<1>8. req'[r].handler = req[r].handler
  BY <1>1, <1>7, IdleFields DEF Flow, Follows
<1>9. \A s \in Slots : s # r => Stage(s)'
  <2> SUFFICES ASSUME NEW s \in Slots, s # r, Making(req[s])
               PROVE  Stage(s)'
    BY <1>1 DEF Stage, Flow
  <2>1. req[s].user \in Ids /\ req[s].user # u
    BY <1>1, <1>2, MakingKnown DEF TInv, Basics, SoleMaker
  <2>2. kit'[req[s].user] = kit[req[s].user] /\ req'[s] = req[s] /\ Stage(s)
    BY <1>1, <1>6, <2>1 DEF Flow, TInv
  <2>3. QED
    BY <1>1, <2>2 DEF Stage, Live
<1>10. Stage(r)'
  <2>1. CASE req'[r].pc = "kit"
    <3>1. kit[u] # 3
      BY <1>1, <2>1, GotoFlow, <1>2 DEF AddResource, TInv, Basics, TypeOK, ReqType, Edge, Labels
    <3>2. kit'[u] < 4
      BY <1>3, <1>6, <3>1
    <3>3. QED
      BY <1>1, <1>2, <1>3, <1>7, <2>1, <3>2 DEF Stage, Live
  <2>2. CASE req'[r].pc = "access" /\ kit[u] = 3
    <3>1. kit'[u] = 4
      BY <1>6, <2>2
    <3>2. QED
      BY <1>1, <1>2, <1>3, <1>7, <2>2, <3>1 DEF Stage, Live
  <2>3. QED
    BY <1>7, <2>1, <2>2
<1>11. SoleMaker'
  BY <1>1, <1>2, <1>7, MakersKept DEF Flow
<1>12. Unborn'
  <2> SUFFICES ASSUME NEW v \in Ids, v >= nextUser PROVE users[v] = Nobody /\ kit'[v] = 0
    BY <1>1 DEF Unborn
  <2>1. v # u
    BY <1>3 DEF Ids, TInv, Basics, TypeOK
  <2>2. QED
    BY <1>6, <2>1 DEF TInv, Unborn
<1>13. QED
  BY <1>1, <1>6, <1>9, <1>10, <1>11, <1>12, PeopleNow DEF PeopleOK

LEMMA UndoUserPeople ==
    ASSUME TInv, NEW r \in Slots, UndoUser(r)
    PROVE  PeopleOK'
<1>1. /\ Flow(r) /\ req[r].pc = "undo" /\ Making(req[r]) /\ Stage(r)
      /\ UNCHANGED <<nextUser, kit, closed>>
  BY PlainFlow DEF TInv, UndoUser, At, Handled, HandledBy, Making
<1>2. PICK u \in Ids : u = req[r].user
  BY <1>1, MakingKnown DEF TInv, Basics
<1>3. Nobody \in User /\ ~Nobody.live
  BY DEF Nobody, User
<1>4. users' = [users EXCEPT ![u] = Nobody] /\ Goto(r, "undo_kit")
  BY <1>2 DEF UndoUser
<1>5. users' \in [Ids -> User] /\ users'[u] = Nobody /\ \A v \in Ids : v # u => users'[v] = users[v]
  BY <1>3, <1>4 DEF TInv, Basics, TypeOK
<1>6. req'[r].pc = "undo_kit" /\ req'[r].user = u
  BY <1>1, <1>2, <1>4, GotoFlow DEF TInv, Basics, TypeOK, ReqType, Edge, Labels
<1>7. \A s \in Slots : s # r => Stage(s)'
  <2> SUFFICES ASSUME NEW s \in Slots, s # r, Making(req[s])
               PROVE  Stage(s)'
    BY <1>1 DEF Stage, Flow
  <2>1. req[s].user \in Ids /\ req[s].user # u
    BY <1>1, <1>2, MakingKnown DEF TInv, Basics, SoleMaker
  <2>2. users'[req[s].user] = users[req[s].user] /\ req'[s] = req[s] /\ Stage(s)
    BY <1>1, <1>5, <2>1 DEF Flow, TInv
  <2>3. QED
    BY <1>1, <2>2 DEF Stage, Live
<1>8. Stage(r)'
  BY <1>1, <1>2, <1>3, <1>5, <1>6 DEF Stage, Live
<1>9. SoleMaker'
  BY <1>1, <1>2, <1>6, MakersKept DEF Flow
<1>10. Unborn'
  BY <1>1, <1>5 DEF TInv, Unborn
<1>11. QED
  BY <1>1, <1>5, <1>7, <1>8, <1>9, <1>10, PeopleNow DEF PeopleOK

LEMMA UndoKitPeople ==
    ASSUME TInv, NEW r \in Slots, UndoKit(r)
    PROVE  PeopleOK'
<1>1. /\ Flow(r) /\ req'[r] = Idle /\ req[r].pc = "undo_kit" /\ Making(req[r]) /\ Stage(r)
      /\ UNCHANGED <<users, nextUser, closed>>
  BY PlainFlow, ReturnFlow DEF TInv, Basics, TypeOK, ReqType, UndoKit, At, Handled, HandledBy, Making
<1>2. PICK u \in Ids : u = req[r].user
  BY <1>1, MakingKnown DEF TInv, Basics
<1>3. kit' \in [Ids -> 0..4] /\ kit'[u] = 0 /\ \A v \in Ids : v # u => kit'[v] = kit[v]
  BY <1>2 DEF UndoKit, TInv, Basics, TypeOK
<1>4. \A s \in Slots : s # r => Stage(s)'
  <2> SUFFICES ASSUME NEW s \in Slots, s # r, Making(req[s])
               PROVE  Stage(s)'
    BY <1>1 DEF Stage, Flow
  <2>1. req[s].user \in Ids /\ req[s].user # u
    BY <1>1, <1>2, MakingKnown DEF TInv, Basics, SoleMaker
  <2>2. kit'[req[s].user] = kit[req[s].user] /\ req'[s] = req[s] /\ Stage(s)
    BY <1>1, <1>3, <2>1 DEF Flow, TInv
  <2>3. QED
    BY <1>1, <2>2 DEF Stage, Live
<1>5. ~Making(req'[r])
  BY <1>1, IdleFields DEF Making
<1>6. SoleMaker'
  BY <1>1, <1>5, MakersKept DEF Flow
<1>7. Unborn'
  BY <1>1, <1>3 DEF TInv, Unborn
<1>8. QED
  BY <1>1, <1>3, <1>4, <1>5, <1>6, <1>7, PeopleNow DEF PeopleOK, Stage

LEMMA LiveKeptPeople ==
    ASSUME TInv, NEW r \in Slots, GoogleVerify(r) \/ Convert(r) \/ SetVerified(r) \/ Rename(r)
    PROVE  PeopleOK'
<1>1. Flow(r) /\ req[r].pc \in {"google_verify", "convert", "verify", "rename"}
  BY PlainFlow, PlainFlowToo, ConvertFlow DEF TInv, GoogleVerify, Convert, SetVerified, Rename, At
<1>2. (\A s \in Slots : Stage(s)') /\ SoleMaker'
  BY <1>1, LiveKept, StageKept
<1>3. QED
  BY <1>2, LiveKept, PeopleNow DEF PeopleOK

LEMMA RemoveUserPeople ==
    ASSUME TInv, NEW r \in Slots, RemoveUser(r)
    PROVE  PeopleOK'
<1>1. /\ Flow(r) /\ req[r].pc = "remove" /\ req'[r].pc = "purge_refresh" /\ req[r].user \in Ids
      /\ UNCHANGED <<nextUser, kit>>
  BY RemoveUserFlow DEF TInv, Basics, UserKnown, HasUser, RemoveUser, At
<1>2. PICK u \in Ids : u = req[r].user
  BY <1>1
<1>3. Nobody \in User /\ ~Nobody.live
  BY DEF Nobody, User
<1>4. users' = [users EXCEPT ![u] = Nobody] /\ closed' = closed \cup {u}
  BY <1>2 DEF RemoveUser
<1>5. /\ users' \in [Ids -> User] /\ closed' \subseteq Ids
      /\ users'[u] = Nobody /\ \A v \in Ids : v # u => users'[v] = users[v]
  BY <1>3, <1>4 DEF TInv, Basics, TypeOK
<1>6. ~Making(req'[r])
  BY <1>1 DEF Making
<1>7. \A s \in Slots : s # r => Stage(s)'
  <2> SUFFICES ASSUME NEW s \in Slots, s # r, Making(req[s])
               PROVE  Stage(s)'
    BY <1>1 DEF Stage, Flow
  <2>1. req'[s] = req[s] /\ Stage(s) /\ req[s].user \in Ids
    BY <1>1, MakingKnown DEF Flow, TInv, Basics
  <2>2. CASE req[s].user = u
    BY <1>1, <1>3, <1>4, <1>5, <2>1, <2>2 DEF Stage, Live
  <2>3. CASE req[s].user # u
    BY <1>1, <1>4, <1>5, <2>1, <2>3 DEF Stage, Live
  <2>4. QED
    BY <2>2, <2>3
<1>8. SoleMaker'
  BY <1>1, <1>6, MakersKept DEF Flow
<1>9. Unborn'
  BY <1>1, <1>5 DEF TInv, Unborn
<1>10. QED
  BY <1>1, <1>5, <1>6, <1>7, <1>8, <1>9, PeopleNow DEF PeopleOK, Stage

LEMMA PeopleStep ==
    ASSUME TInv, NEW r \in Slots, Handler(r)
    PROVE  PeopleOK'
<1>1. CASE /\ UNCHANGED <<users, nextUser, kit, closed, proven>>
           /\ req[r].pc \notin {"create", "kit", "undo", "undo_kit"}
  <2>1. Flow(r)
    BY HandlerFlow DEF TInv
  <2>2. (\A s \in Slots : Stage(s)') /\ SoleMaker'
    BY <1>1, <2>1, StageKept
  <2>3. Unborn'
    BY <1>1 DEF TInv, Unborn
  <2>4. QED
    BY <1>1, <2>2, <2>3, PeopleNow DEF PeopleOK
<1>2. QED
  BY <1>1, PeopleWriters, FailPeople, CreateUserPeople, AddResourcePeople, UndoUserPeople,
     UndoKitPeople, LiveKeptPeople, RemoveUserPeople

LEMMA PeopleOpened ==
    ASSUME TInv, NEW r \in Slots, Opened(r), UNCHANGED <<people, closed>>
    PROVE  PeopleOK'
<1>1. ~Making(req'[r])
  BY MakingOpened
<1>2. \A s \in Slots : Stage(s)'
  BY <1>1 DEF TInv, Stage, Live, Opened
<1>3. SoleMaker'
  BY <1>1, MakersKept DEF Opened
<1>4. QED
  BY <1>2, <1>3, PeopleNow DEF PeopleOK, Unborn

(***************************************************************************)
(* The types of the rest.                                                  *)
(***************************************************************************)
TokensOK ==
    /\ access \subseteq Access /\ refresh \subseteq Refresh /\ nextId \in Nat
    /\ purged \subseteq Nat /\ cutoff \in [Ids -> Nat]

LEMMA TokensStep ==
    ASSUME TInv, NEW r \in Slots, Handler(r)
    PROVE  TokensOK'
<1>1. TokensOK /\ req[r] \in Request /\ (req[r].pc \in HasUser => req[r].user \in Ids)
  BY DEF TInv, Basics, TypeOK, TokensOK, UserKnown
<1>2. CASE UNCHANGED <<access, refresh, nextId, purged, cutoff>>
  BY <1>1, <1>2 DEF TokensOK
<1>3. CASE IssueAccess(r)
  <2>1. req[r].user \in Ids
    BY <1>1, <1>3 DEF IssueAccess, At, HasUser
  <2>2. QED
    BY <1>1, <1>3, <2>1 DEF IssueAccess, TokensOK, Access
<1>4. CASE IssueRefresh(r)
  <2>1. req[r].user \in Ids /\ req[r].new.access \in Nat
    BY <1>1, <1>4 DEF IssueRefresh, At, HasUser, Request, Pair
  <2>2. UNCHANGED <<access, purged, cutoff>>
    BY <1>4 DEF IssueRefresh
  <2>3. CASE UNCHANGED <<refresh, nextId>>
    BY <1>1, <2>2, <2>3 DEF TokensOK
  <2>4. CASE /\ refresh' = refresh \cup {[id |-> nextId, user |-> req[r].user, prev |-> req[r].new.access]}
             /\ nextId' = nextId + 1
    BY <1>1, <2>1, <2>2, <2>4 DEF TokensOK, Refresh
  <2>5. QED
    BY <1>4, <2>3, <2>4, IssueRefreshFlow DEF TInv
<1>5. CASE SendVerification(r)
  BY <1>1, <1>5 DEF SendVerification, TokensOK
<1>6. CASE DropAccess(r) \/ RejectRefresh(r) \/ DropRefresh(r)
  BY <1>1, <1>6 DEF DropAccess, RejectRefresh, DropRefresh, TokensOK
<1>7. CASE PurgeRefresh(r)
  <2>1. {t.id : t \in {x \in refresh : x.user = req[r].user}} \subseteq Nat
    BY <1>1 DEF TokensOK, Refresh
  <2>2. QED
    BY <1>1, <1>7, <2>1 DEF PurgeRefresh, TokensOK
<1>8. CASE PurgeAccess(r)
  <2>1. PICK u \in Ids : u = req[r].user
    BY <1>1, <1>8 DEF PurgeAccess, At, HasUser
  <2>2. Later(cutoff[u], req[r].mark) \in Nat
    BY <1>1 DEF Later, TokensOK, Request
  <2>3. cutoff' = [cutoff EXCEPT ![u] = Later(cutoff[u], req[r].mark)]
    BY <1>8, <2>1 DEF PurgeAccess
  <2>4. cutoff' \in [Ids -> Nat]
    BY <1>1, <2>2, <2>3 DEF TokensOK
  <2>5. QED
    BY <1>1, <1>8, <2>4 DEF PurgeAccess, TokensOK
<1>9. QED
  BY <1>2, <1>3, <1>4, <1>5, <1>6, <1>7, <1>8, TokenWriters

MailOK ==
    /\ verifs \subseteq [id : Nat, user : Ids, to : Emails \cup {Synthetic}, used : BOOLEAN]
    /\ resets \subseteq [id : Nat, user : Ids, used : BOOLEAN]
    /\ states \in Nat /\ codes \subseteq [client : Clients, user : Ids, pair : Pair]

LEMMA MailStep ==
    ASSUME TInv, NEW r \in Slots, Handler(r)
    PROVE  MailOK'
<1>1. MailOK /\ req[r] \in Request /\ (req[r].pc \in HasUser => req[r].user \in Ids) /\ nextId \in Nat
  BY DEF TInv, Basics, TypeOK, MailOK, UserKnown
<1>2. CASE UNCHANGED <<verifs, resets, states, codes>>
  BY <1>1, <1>2 DEF MailOK
<1>3. CASE UndoKit(r)
  <2>1. verifs' \subseteq verifs /\ UNCHANGED <<resets, states, codes>>
    BY <1>3 DEF UndoKit
  <2>2. QED
    BY <1>1, <2>1 DEF MailOK
<1>4. CASE SendVerification(r)
  <2>1. req[r].user \in Ids /\ req[r].email \in Emails \cup {Synthetic}
    BY <1>1, <1>4 DEF SendVerification, At, HasUser, Request
  <2>2. [id |-> nextId, user |-> req[r].user, to |-> req[r].email, used |-> FALSE]
            \in [id : Nat, user : Ids, to : Emails \cup {Synthetic}, used : BOOLEAN]
    BY <1>1, <2>1
  <2>3. QED
    BY <1>1, <1>4, <2>2 DEF SendVerification, MailOK
<1>5. CASE SpendReset(r)
  BY <1>1, <1>5 DEF SpendReset, MailOK
<1>6. CASE MarkVerified(r)
  BY <1>1, <1>6 DEF MarkVerified, MailOK
<1>7. CASE StoreExchange(r)
  <2>1. req[r].user \in Ids /\ req[r].new \in Pair /\ Client(r) \in Clients
    BY <1>1, <1>7, AccountsAssumption DEF StoreExchange, At, HasUser, Request, Client
  <2>2. QED
    BY <1>1, <1>7, <2>1 DEF StoreExchange, MailOK
<1>8. QED
  BY <1>2, <1>3, <1>4, <1>5, <1>6, <1>7, MailWriters

\* The cookies of the browsers, and what else a behaviour counts.
RestOK ==
    /\ jar \in [Clients -> Pair] /\ kept \in [Clients -> SUBSET Nat]
    /\ calls \in Nat /\ errors \in Nat /\ kills \in Nat
    /\ proven \in [Ids -> SUBSET (Emails \cup {Synthetic})] /\ torn \subseteq Clients
    /\ contested \subseteq ({"email"} \X Emails) \cup ({"name"} \X Names)

LEMMA RestStep ==
    ASSUME TInv, NEW r \in Slots, Handler(r)
    PROVE  RestOK'
<1>1. RestOK /\ req[r] \in Request /\ Client(r) \in Clients /\ (req[r].pc \in HasUser => req[r].user \in Ids)
  BY AccountsAssumption DEF TInv, Basics, TypeOK, RestOK, Client, UserKnown
<1>2. jar' \in [Clients -> Pair] /\ kept' \in [Clients -> SUBSET Nat]
  <2>1. CASE UNCHANGED <<jar, kept>>
    BY <1>1, <2>1 DEF RestOK
  <2>2. CASE Reply(r)
    <3>1. req[r].new \in Pair /\ req[r].new.refresh \in Nat
      BY <1>1 DEF Request, Pair
    <3>2. QED
      BY <1>1, <2>2, <3>1 DEF Reply, RestOK
  <2>3. CASE ClearJar(r)
    <3>1. NoPair \in Pair
      BY DEF NoPair, Pair
    <3>2. QED
      BY <1>1, <2>3, <3>1 DEF ClearJar, RestOK
  <2>4. QED
    BY <2>1, <2>2, <2>3, BrowserWriters
<1>3. proven' \in [Ids -> SUBSET (Emails \cup {Synthetic})]
  <2>1. req[r].email \in Emails \cup {Synthetic}
    BY <1>1 DEF Request
  <2>2. CASE UNCHANGED proven
    BY <1>1, <2>2 DEF RestOK
  <2>3. CASE GoogleVerify(r) \/ SetVerified(r)
    <3>1. PICK u \in Ids : u = req[r].user
      BY <1>1, <2>3 DEF GoogleVerify, SetVerified, At, HasUser
    <3>2. proven' = proven \/ proven' = [proven EXCEPT ![u] = @ \cup {req[r].email}]
      BY <2>3, <3>1 DEF GoogleVerify, SetVerified
    <3>3. QED
      BY <1>1, <2>1, <3>2 DEF RestOK
  <2>4. CASE CreateUser(r)
    BY <1>1, <2>1, <2>4 DEF CreateUser, RestOK
  <2>5. QED
    BY <2>2, <2>3, <2>4, PeopleWriters DEF Fail, AddResource, UndoUser, UndoKit, Convert, Rename, RemoveUser
<1>4. calls' \in Nat /\ errors' \in Nat /\ kills' \in Nat /\ torn' \subseteq Clients
  BY <1>1, CounterWriters DEF RestOK
<1>5. contested' \subseteq ({"email"} \X Emails) \cup ({"name"} \X Names)
  BY <1>1, HandlerRecords, RecordedTyped DEF RestOK
<1>6. QED
  BY <1>2, <1>3, <1>4, <1>5 DEF RestOK

(***************************************************************************)
(* Types and builders, put together.                                       *)
(***************************************************************************)
LEMMA TypeInit == Init => TInv
<1> SUFFICES ASSUME Init PROVE TInv
  OBVIOUS
<1>1. \A r \in Slots : req[r] = Idle
  BY DEF Init
<1>2. req \in [Slots -> Request]
  BY IdleType DEF Init
<1>3. 1 \in Ids /\ nextUser \in Nat /\ 1 <= nextUser
  BY AccountsAssumption DEF Init, Ids
<1>4. Nobody \in User /\ NoPair \in Pair
  BY DEF Nobody, User, NoPair, Pair
<1>5. users \in [Ids -> User] /\ kit \in [Ids -> 0..4]
  <2>1. CASE Settled
    <3>1. (CHOOSE e \in Emails : TRUE) \in Emails
      BY <2>1, AccountsAssumption
    <3>2. PICK e \in Emails : e = CHOOSE x \in Emails : TRUE
      BY <3>1
    <3>3. [live |-> TRUE, email |-> e, name |-> Handle, guest |-> FALSE, verified |-> FALSE] \in User
      BY DEF User
    <3> DEFINE d == [live |-> TRUE, email |-> e, name |-> Handle, guest |-> FALSE, verified |-> FALSE]
    <3>4. users = [u \in Ids |-> IF u = 1 THEN d ELSE Nobody]
      BY <2>1, <3>2 DEF Init
    <3> HIDE DEF d
    <3>5. users \in [Ids -> User]
      BY <1>4, <3>3, <3>4 DEF d
    <3>6. kit = [u \in Ids |-> IF u = 1 THEN 4 ELSE 0]
      BY <2>1 DEF Init
    <3>7. kit \in [Ids -> 0..4]
      BY <3>6
    <3>8. QED
      BY <3>5, <3>7
  <2>2. CASE ~Settled
    <3>1. users = [u \in Ids |-> Nobody] /\ kit = [u \in Ids |-> 0]
      BY <2>2 DEF Init
    <3>2. users \in [Ids -> User]
      BY <1>4, <3>1
    <3>3. kit \in [Ids -> 0..4]
      BY <3>1
    <3>4. QED
      BY <3>2, <3>3
  <2>3. QED
    BY <2>1, <2>2
<1>6. Unborn
  BY <1>3 DEF Init, Unborn, Ids
<1>7. UserKnown /\ Handled
  BY <1>1, IdleFields DEF UserKnown, HasUser, Handled, HandledBy
<1>8. (\A r \in Slots : Stage(r)) /\ SoleMaker
  BY <1>1, IdleFields DEF Stage, SoleMaker, Making
<1>9. TypeOK
  BY <1>2, <1>3, <1>4, <1>5 DEF Init, TypeOK
<1>10. QED
  BY <1>3, <1>6, <1>7, <1>8, <1>9 DEF TInv, Basics

LEMMA TypesPart == TInv => PeopleOK /\ TokensOK /\ MailOK /\ RestOK /\ ReqType
BY DEF TInv, Basics, PeopleOK, TokensOK, MailOK, RestOK, ReqType, TypeOK

LEMMA PartsMeet ==
    ASSUME PeopleOK', TokensOK', MailOK', RestOK', ReqType', UserKnown', Handled'
    PROVE  TInv'
<1>1. TypeOK'
  BY DEF PeopleOK, TokensOK, MailOK, RestOK, ReqType, TypeOK
<1>2. QED
  BY <1>1 DEF TInv, Basics, PeopleOK

LEMMA HandlerTypes == ASSUME TInv, NEW r \in Slots, Handler(r) PROVE TInv'
<1>1. PeopleOK' /\ TokensOK' /\ MailOK' /\ RestOK'
  BY PeopleStep, TokensStep, MailStep, RestStep
<1>2. ReqType' /\ Handled' /\ UserKnown'
  BY HandlerFlow, HandledFlow, KnownStep DEF TInv, Flow, ReqType
<1>3. QED
  BY <1>1, <1>2, PartsMeet

LEMMA CallTypes == ASSUME TInv, NEW r \in Slots, Call(r) PROVE TInv'
<1>1. /\ UNCHANGED <<people, tokens, mailbox, browser, errors, kills, history>> /\ calls' = calls + 1
      /\ UNCHANGED <<states, codes>> \/ ExchangeBegin(r) \/ (ConsumeState /\ UNCHANGED codes)
  BY CallWrites
<1>2. Opened(r)
  BY CallOpens DEF TInv
<1>3. PeopleOK'
  BY <1>1, <1>2, PeopleOpened
<1>4. TokensOK' /\ RestOK'
  BY <1>1, TypesPart, CallRecords, RecordedTyped DEF TokensOK, RestOK
<1>5. MailOK'
  <2>1. CASE UNCHANGED <<states, codes>>
    BY <1>1, <2>1, TypesPart DEF MailOK
  <2>2. CASE ExchangeBegin(r)
    <3>1. codes' \subseteq codes /\ UNCHANGED states
      BY <2>2 DEF ExchangeBegin
    <3>2. QED
      BY <1>1, <3>1, TypesPart DEF MailOK
  <2>3. CASE ConsumeState /\ UNCHANGED codes
    BY <1>1, <2>3, TypesPart DEF MailOK, ConsumeState
  <2>4. QED
    BY <1>1, <2>1, <2>2, <2>3
<1>6. ReqType' /\ Handled' /\ UserKnown'
  BY <1>2, HandledOpened, KnownOpened DEF TInv, Basics, Opened, ReqType
<1>7. QED
  BY <1>3, <1>4, <1>5, <1>6, PartsMeet

\* A killed request is gone, and so is its part in building an account.
LEMMA KillTypes == ASSUME TInv, NEW r \in Slots, Kill(r) PROVE TInv'
<1>1. /\ UNCHANGED <<people, tokens, mailbox, google, browser, errors, closed, proven, purged, cutoff>>
      /\ kills' = kills + 1 /\ calls' = calls + 1 /\ torn' = torn \cup {Client(r)}
  BY DEF Kill, Count
<1>2. Flow(r) /\ req'[r] = Idle
  BY ReturnFlow DEF Kill, TInv, Basics, TypeOK, ReqType
<1>3. ~Making(req'[r])
  BY <1>2, IdleFields DEF Making
<1>4. PeopleOK'
  <2>1. \A s \in Slots : Stage(s)'
    BY <1>1, <1>2, <1>3 DEF TInv, Stage, Live, Flow
  <2>2. SoleMaker'
    BY <1>2, <1>3, MakersKept DEF Flow
  <2>3. QED
    BY <1>1, <2>1, <2>2, PeopleNow DEF PeopleOK, Unborn
<1>5. Client(r) \in Clients
  BY AccountsAssumption DEF Client
<1>6. TokensOK' /\ MailOK' /\ RestOK'
  BY <1>1, <1>5, TypesPart, CallRecords, RecordedTyped DEF TokensOK, MailOK, RestOK
<1>7. ReqType' /\ Handled'
  BY <1>2, HandledFlow DEF TInv, Flow, ReqType
<1>8. UserKnown'
  BY <1>2, IdleFields DEF TInv, Basics, UserKnown, Flow, HasUser
<1>9. QED
  BY <1>4, <1>6, <1>7, <1>8, PartsMeet

\* The steps that belong to no request.
Aside ==
    \/ \E c \in Clients : AccessAges(c)
    \/ GoogleStart \/ RequestReset

LEMMA AsideWrites ==
    ASSUME TInv, Aside
    PROVE  /\ UNCHANGED <<people, refresh, verifs, codes, kept, flight, errors, kills, history>>
           /\ calls' = calls + 1 /\ states' \in {states, states + 1}
           /\ access' \subseteq access
           /\ nextId' \in {nextId, nextId + 1}
           /\ \/ jar' = jar
              \/ \E c \in Clients : jar' = [jar EXCEPT ![c].access = 0]
           /\ \/ resets' = resets
              \/ \E u \in Ids : resets' = resets \cup {[id |-> nextId, user |-> u, used |-> FALSE]}
BY DEF Aside, AccessAges, GoogleStart, RequestReset, Count

LEMMA AsideTypes == ASSUME TInv, Aside PROVE TInv'
<1>1. /\ UNCHANGED <<people, refresh, verifs, codes, kept, flight, errors, kills, history>>
      /\ calls' = calls + 1 /\ states' \in {states, states + 1}
      /\ access' \subseteq access
      /\ nextId' \in {nextId, nextId + 1}
      /\ \/ jar' = jar
         \/ \E c \in Clients : jar' = [jar EXCEPT ![c].access = 0]
      /\ \/ resets' = resets
         \/ \E u \in Ids : resets' = resets \cup {[id |-> nextId, user |-> u, used |-> FALSE]}
  BY AsideWrites
<1>2. PeopleOK'
  BY <1>1, TypesPart DEF PeopleOK, Stage, SoleMaker, Unborn, Live
<1>3. TokensOK'
  BY <1>1, TypesPart DEF TokensOK
<1>4. MailOK'
  <2>1. MailOK /\ nextId \in Nat
    BY TypesPart DEF TokensOK
  <2>2. states' \in Nat
    BY <1>1, <2>1 DEF MailOK
  <2>3. resets' \subseteq [id : Nat, user : Ids, used : BOOLEAN]
    <3>1. \A u \in Ids : [id |-> nextId, user |-> u, used |-> FALSE] \in [id : Nat, user : Ids, used : BOOLEAN]
      BY <2>1
    <3>2. QED
      BY <1>1, <2>1, <3>1 DEF MailOK
  <2>4. QED
    BY <1>1, <2>1, <2>2, <2>3 DEF MailOK
<1>5. RestOK'
  <2>1. \A p \in Pair : [p EXCEPT !.access = 0] \in Pair
    BY DEF Pair
  <2>2. jar' \in [Clients -> Pair]
    BY <1>1, <2>1, TypesPart DEF RestOK
  <2>3. QED
    BY <1>1, <2>2, TypesPart DEF RestOK
<1>6. ReqType' /\ Handled' /\ UserKnown'
  BY <1>1 DEF TInv, Basics, TypeOK, ReqType, Handled, UserKnown
<1>7. QED
  BY <1>2, <1>3, <1>4, <1>5, <1>6, PartsMeet

LEMMA StutterTypes == ASSUME TInv, UNCHANGED vars PROVE TInv'
<1>1. PeopleOK' /\ TokensOK' /\ MailOK' /\ RestOK' /\ ReqType'
  BY TypesPart DEF PeopleOK, TokensOK, MailOK, RestOK, ReqType, Stage, SoleMaker, Unborn, Live
<1>2. Handled' /\ UserKnown'
  BY DEF TInv, Basics, Handled, UserKnown
<1>3. QED
  BY <1>1, <1>2, PartsMeet

\* Every step is a call, a step of a handler, a kill, or belongs to no request.
LEMMA NextCases ==
    [Next]_vars => \/ \E r \in Slots : Call(r) \/ Handler(r) \/ Kill(r)
                   \/ Aside \/ UNCHANGED vars
BY DEF Next, Aside

LEMMA TypeStep == TInv /\ [Next]_vars => TInv'
BY NextCases, CallTypes, HandlerTypes, KillTypes, AsideTypes, StutterTypes

LEMMA TInvAlways == Spec => []TInv
BY TypeInit, TypeStep, PTL DEF Spec

\* Types of accounts, tokens and requests; the stock of an account never
\* grows past its four documents, since one request at most builds it.
THEOREM AccountsTypes == Spec => []TypeOK
<1>1. TInv => TypeOK
  BY DEF TInv, Basics
<1>2. QED
  BY <1>1, TInvAlways, PTL

(***************************************************************************)
(* Purges.                                                                 *)
(***************************************************************************)
\* No mark is ahead of the ids given out, and a purge that has only its access
\* tokens left has no refresh token from before its mark.
Purging(r) == req[r].pc = "purge_access" => \A t \in refresh : t.user = req[r].user => t.id >= req[r].mark

PurgeInv ==
    /\ \A u \in Ids : cutoff[u] <= nextId
    /\ \A r \in Slots : req[r].mark <= nextId
    /\ \A r \in Slots : Purging(r)
    /\ PurgeIsComplete

LEMMA MarkersOnly ==
    ASSUME NEW r \in Slots, Handler(r), req[r].pc \in {"password", "convert", "remove", "purge_refresh"}
    PROVE  SetPassword(r) \/ Convert(r) \/ RemoveUser(r) \/ PurgeRefresh(r)
BY DEF Handler, CheckName, FindUser, GoogleVerify, CreateUser, AddResource, Fail, Guarded, UndoUser,
   UndoKit, IssueAccess, IssueRefresh, ReadBack, SendVerification, StoreExchange, PickUp, Reply,
   ClearJar, MatchSession, DropAccess, RejectRefresh, DropRefresh, SkipDelete, SpendReset,
   PurgeAccess, CheckUpgrade, Reload, SetVerified, MarkVerified, CheckRename, Rename, At

LEMMA IdsGrow ==
    ASSUME TInv, NEW r \in Slots, Handler(r)
    PROVE  nextId' \in {nextId, nextId + 1}
BY TokenWriters, IssueRefreshFlow DEF TInv, IssueAccess, SendVerification, DropAccess, RejectRefresh,
   DropRefresh, PurgeRefresh, PurgeAccess

LEMMA MarkStep ==
    ASSUME TInv, NEW r \in Slots, Handler(r), \A s \in Slots : req[s].mark <= nextId
    PROVE  \A s \in Slots : req'[s].mark <= nextId'
<1>1. nextId \in Nat /\ nextId' \in {nextId, nextId + 1} /\ \A s \in Slots : req[s].mark \in Nat
  BY IdsGrow DEF TInv, Basics, TypeOK, Request
<1>2. Flow(r)
  BY HandlerFlow DEF TInv
<1>3. req'[r].mark \in {0, req[r].mark, nextId}
  <2>1. CASE req[r].pc \notin {"password", "convert", "remove"}
    BY <1>2, <2>1, IdleFields DEF Flow, Follows
  <2>2. CASE SetPassword(r) \/ Convert(r) \/ RemoveUser(r)
    BY <2>2, SetPasswordFlow, ConvertFlow, RemoveUserFlow DEF TInv
  <2>3. CASE PurgeRefresh(r)
    BY <2>1, <2>3 DEF PurgeRefresh, At
  <2>4. QED
    BY <2>1, <2>2, <2>3, MarkersOnly
<1>4. req'[r].mark <= nextId'
  BY <1>1, <1>3
<1>5. \A s \in Slots : s # r => req'[s].mark <= nextId'
  <2> SUFFICES ASSUME NEW s \in Slots, s # r PROVE req'[s].mark <= nextId'
    OBVIOUS
  <2>1. req'[s] = req[s]
    BY <1>2 DEF Flow
  <2>2. req[s].mark <= nextId'
    BY <1>1
  <2>3. QED
    BY <2>1, <2>2
<1>6. QED
  BY <1>4, <1>5

\* A step that adds no token and purges nothing.
LEMMA PurgingKept ==
    ASSUME PurgeInv, NEW r \in Slots, Flow(r), req[r].pc # "purge_refresh",
           access' \subseteq access, refresh' \subseteq refresh, cutoff' = cutoff
    PROVE  (\A s \in Slots : Purging(s)') /\ PurgeIsComplete'
<1>1. req'[r].pc # "purge_access"
  BY IdleFields DEF Flow, Follows, Edge
<1>2. \A s \in Slots : Purging(s)'
  BY <1>1 DEF PurgeInv, Purging, Flow
<1>3. QED
  BY <1>2 DEF PurgeInv, PurgeIsComplete

LEMMA PurgingStep ==
    ASSUME TInv, PurgeInv, NEW r \in Slots, Handler(r)
    PROVE  (\A s \in Slots : Purging(s)') /\ PurgeIsComplete' /\ \A u \in Ids : cutoff'[u] <= nextId'
<1>1. /\ nextId \in Nat /\ nextId' \in {nextId, nextId + 1} /\ cutoff \in [Ids -> Nat] /\ req[r] \in Request
      /\ access \subseteq Access /\ refresh \subseteq Refresh
  BY IdsGrow DEF TInv, Basics, TypeOK
<1>2. Flow(r) /\ (req[r].pc \in HasUser => req[r].user \in Ids)
  BY HandlerFlow DEF TInv, Basics, UserKnown
<1>3. cutoff' = cutoff => \A u \in Ids : cutoff'[u] <= nextId'
  <2> SUFFICES ASSUME cutoff' = cutoff, NEW u \in Ids PROVE cutoff[u] <= nextId'
    OBVIOUS
  <2>1. cutoff[u] \in Nat /\ cutoff[u] <= nextId
    BY <1>1 DEF PurgeInv
  <2>2. QED
    BY <1>1, <2>1
<1>4. CASE /\ access' \subseteq access /\ refresh' \subseteq refresh /\ cutoff' = cutoff
           /\ req[r].pc # "purge_refresh"
  BY <1>2, <1>3, <1>4, PurgingKept
<1>5. CASE PurgeRefresh(r)
  <2>1. /\ req[r].pc = "purge_refresh" /\ UNCHANGED <<access, cutoff>>
        /\ refresh' = refresh \ {t \in refresh : t.user = req[r].user}
    BY <1>5 DEF PurgeRefresh, At
  <2>2. req'[r].pc = "purge_access" => req'[r].user = req[r].user
    BY <1>2, <2>1, IdleFields DEF Flow, Follows
  <2>3. Purging(r)'
    BY <2>1, <2>2 DEF Purging
  <2>4. \A s \in Slots : s # r => Purging(s)'
    BY <1>2, <2>1 DEF PurgeInv, Purging, Flow
  <2>5. PurgeIsComplete'
    BY <2>1 DEF PurgeInv, PurgeIsComplete
  <2>6. QED
    BY <1>3, <2>1, <2>3, <2>4, <2>5
<1>6. CASE PurgeAccess(r)
  <2>1. req[r].pc = "purge_access" /\ refresh' = refresh /\ nextId' = nextId
    BY <1>6 DEF PurgeAccess, At
  <2>2. PICK u \in Ids : u = req[r].user
    BY <1>2, <2>1 DEF HasUser
  <2>3. PICK m \in Nat : m = req[r].mark
    BY <1>1 DEF Request
  <2>4. /\ access' = {a \in access : a.user # u}
        /\ cutoff' = [cutoff EXCEPT ![u] = Later(cutoff[u], m)]
    BY <1>6, <2>2, <2>3 DEF PurgeAccess
  <2>5. /\ m <= nextId /\ cutoff[u] <= nextId /\ \A v \in Ids : cutoff[v] <= nextId
        /\ \A t \in refresh : t.user = u => t.id >= m
    BY <2>1, <2>2, <2>3 DEF PurgeInv, Purging
  <2>6. Later(cutoff[u], m) \in {cutoff[u], m} /\ cutoff'[u] = Later(cutoff[u], m)
        /\ \A v \in Ids : v # u => cutoff'[v] = cutoff[v]
    BY <1>1, <2>4 DEF Later
  <2>7. \A v \in Ids : cutoff'[v] <= nextId'
    BY <2>1, <2>5, <2>6
  <2>8. req'[r].pc # "purge_access"
    BY <1>2, <2>1, IdleFields DEF Flow, Follows, Edge
  <2>9. \A s \in Slots : Purging(s)'
    BY <1>2, <2>1, <2>8 DEF PurgeInv, Purging, Flow
  <2>10. PurgeIsComplete'
    <3>1. \A t \in access : t.user # u => t.id >= cutoff'[t.user]
      BY <1>1, <2>6 DEF PurgeInv, PurgeIsComplete, Access
    <3>2. \A t \in refresh : t.user # u => t.id >= cutoff'[t.user]
      BY <1>1, <2>6 DEF PurgeInv, PurgeIsComplete, Refresh
    <3>3. \A t \in refresh : t.user = u => t.id >= cutoff'[t.user]
      BY <2>5, <2>6 DEF PurgeInv, PurgeIsComplete
    <3>4. QED
      BY <2>1, <2>4, <3>1, <3>2, <3>3 DEF PurgeIsComplete
  <2>11. QED
    BY <2>7, <2>9, <2>10
<1>7. CASE IssueAccess(r)
  <2>1. /\ req[r].pc = "access" /\ UNCHANGED <<refresh, cutoff>>
        /\ access' = access \cup {[id |-> nextId, user |-> req[r].user]}
    BY <1>7 DEF IssueAccess, At
  <2>2. req[r].user \in Ids /\ nextId >= cutoff[req[r].user]
    BY <1>1, <1>2, <2>1 DEF HasUser, PurgeInv
  <2>3. PurgeIsComplete'
    BY <2>1, <2>2 DEF PurgeInv, PurgeIsComplete
  <2>4. \A s \in Slots : Purging(s)'
    BY <1>2, <2>1, IdleFields DEF PurgeInv, Purging, Flow, Follows, Edge
  <2>5. QED
    BY <1>3, <2>1, <2>3, <2>4
<1>8. CASE IssueRefresh(r)
  <2>1. req[r].pc = "refresh" /\ UNCHANGED <<access, cutoff>>
    BY <1>8 DEF IssueRefresh, At
  <2>2. req[r].user \in Ids /\ nextId >= cutoff[req[r].user]
    BY <1>1, <1>2, <2>1 DEF HasUser, PurgeInv
  <2>3. CASE refresh' = refresh \cup {[id |-> nextId, user |-> req[r].user, prev |-> req[r].new.access]}
    <3>1. PurgeIsComplete'
      BY <2>1, <2>2, <2>3 DEF PurgeInv, PurgeIsComplete
    <3>2. \A s \in Slots : req[s].mark \in Nat /\ req[s].mark <= nextId
      BY DEF TInv, Basics, TypeOK, Request, PurgeInv
    <3>3. \A s \in Slots : s # r => Purging(s)'
      BY <1>1, <1>2, <2>3, <3>2 DEF PurgeInv, Purging, Flow
    <3>4. Purging(r)'
      BY <1>2, <2>1, IdleFields DEF Purging, Flow, Follows, Edge
    <3>5. QED
      BY <1>3, <2>1, <3>1, <3>3, <3>4
  <2>4. CASE refresh' = refresh
    BY <1>2, <1>3, <2>1, <2>4, PurgingKept
  <2>5. QED
    BY <1>8, <2>3, <2>4, IssueRefreshFlow DEF TInv
<1>9. CASE SendVerification(r) \/ DropAccess(r) \/ RejectRefresh(r) \/ DropRefresh(r)
  BY <1>4, <1>9 DEF SendVerification, DropAccess, RejectRefresh, DropRefresh, At
<1>10. CASE UNCHANGED <<access, refresh, nextId, purged, cutoff>>
  BY <1>4, <1>5, <1>10, MarkersOnly DEF SetPassword, Convert, RemoveUser, At
<1>11. QED
  BY <1>5, <1>6, <1>7, <1>8, <1>9, <1>10, TokenWriters

LEMMA PurgeInit == Init => PurgeInv
<1> SUFFICES ASSUME Init PROVE PurgeInv
  OBVIOUS
<1>1. access = {} /\ refresh = {} /\ nextId = 1
  BY DEF Init
<1>2. \A r \in Slots : req[r].mark = 0 /\ req[r].pc = "idle"
  BY IdleFields DEF Init
<1>3. \A u \in Ids : cutoff[u] = 0
  BY DEF Init
<1>4. QED
  BY <1>1, <1>2, <1>3 DEF PurgeInv, Purging, PurgeIsComplete

LEMMA PurgeStep == TInv /\ PurgeInv /\ [Next]_vars => PurgeInv'
<1> SUFFICES ASSUME TInv, PurgeInv, [Next]_vars PROVE PurgeInv'
  OBVIOUS
<1>1. nextId \in Nat /\ (\A u \in Ids : cutoff[u] \in Nat) /\ \A r \in Slots : req[r].mark \in Nat
  BY DEF TInv, Basics, TypeOK, Request
<1>2. ASSUME NEW r \in Slots, Handler(r) PROVE PurgeInv'
  BY <1>2, MarkStep, PurgingStep DEF PurgeInv
<1>3. ASSUME NEW r \in Slots, Call(r) PROVE PurgeInv'
  <2>1. Opened(r) /\ UNCHANGED <<access, refresh, nextId, cutoff>>
    BY <1>3, CallOpens, CallWrites DEF TInv
  <2>2. req'[r].mark = 0 /\ req'[r].pc # "purge_access"
    BY <2>1 DEF Opened, Opens
  <2>3. \A s \in Slots : req'[s].mark <= nextId'
    BY <1>1, <2>1, <2>2 DEF PurgeInv, Opened
  <2>4. \A s \in Slots : Purging(s)'
    BY <2>1, <2>2 DEF PurgeInv, Opened, Purging
  <2>5. QED
    BY <2>1, <2>3, <2>4 DEF PurgeInv, PurgeIsComplete
<1>4. ASSUME NEW r \in Slots, Kill(r) PROVE PurgeInv'
  <2>1. Flow(r) /\ req'[r] = Idle /\ UNCHANGED <<access, refresh, nextId, cutoff>>
    BY <1>4, ReturnFlow DEF Kill, TInv, Basics, TypeOK, ReqType
  <2>2. req'[r].mark = 0 /\ req'[r].pc # "purge_access"
    BY <2>1, IdleFields
  <2>3. \A s \in Slots : req'[s].mark <= nextId'
    BY <1>1, <2>1, <2>2 DEF PurgeInv, Flow
  <2>4. \A s \in Slots : Purging(s)'
    BY <2>1, <2>2 DEF PurgeInv, Flow, Purging
  <2>5. QED
    BY <2>1, <2>3, <2>4 DEF PurgeInv, PurgeIsComplete
<1>5. CASE Aside
  <2>1. /\ UNCHANGED <<refresh, req, cutoff>> /\ access' \subseteq access /\ nextId' \in {nextId, nextId + 1}
    BY <1>5, AsideWrites
  <2>2. (\A u \in Ids : cutoff'[u] <= nextId') /\ \A r \in Slots : req'[r].mark <= nextId'
    BY <1>1, <2>1 DEF PurgeInv
  <2>3. QED
    BY <2>1, <2>2 DEF PurgeInv, Purging, PurgeIsComplete
<1>6. CASE UNCHANGED vars
  BY <1>6 DEF PurgeInv, Purging, PurgeIsComplete
<1>7. QED
  BY <1>2, <1>3, <1>4, <1>5, <1>6, NextCases

\* Once a reset, an upgrade or a removal is through, no token issued before it
\* changed the user is left, whatever else the browsers had in flight.
THEOREM AccountsPurgeIsComplete == Spec => []PurgeIsComplete
<1>1. PurgeInv => PurgeIsComplete
  BY DEF PurgeInv
<1>2. QED
  BY <1>1, TInvAlways, PurgeInit, PurgeStep, PTL DEF Spec

(***************************************************************************)
(* All or nothing.                                                         *)
(***************************************************************************)
\* Somebody still builds the account, or it is whole: all of it is there, or
\* nothing, or its owner removed it.
Made(u)  == \E r \in Slots : Making(req[r]) /\ req[r].user = u
Whole(u) == IF Live(u) THEN kit[u] = 4 ELSE u \in closed \/ kit[u] = 0

WholeInv == kills = 0 => \A u \in Ids : u < nextUser => Made(u) \/ Whole(u)

\* What becomes of u by a step of r that leaves the document and the kit of u
\* alone, unless r built u.
LEMMA OthersWhole ==
    ASSUME TInv, NEW r \in Slots, Flow(r), NEW u \in Ids,
           users'[u].live = users[u].live, kit'[u] = kit[u], closed \subseteq closed',
           Made(u) \/ Whole(u),
           ~(Making(req[r]) /\ req[r].user = u)
    PROVE  Made(u)' \/ Whole(u)'
<1>1. CASE Made(u)
  <2>1. PICK s \in Slots : Making(req[s]) /\ req[s].user = u
    BY <1>1 DEF Made
  <2>2. req'[s] = req[s]
    BY <2>1 DEF Flow
  <2>3. QED
    BY <2>1, <2>2 DEF Made
<1>2. CASE Whole(u)
  BY <1>2 DEF Whole, Live
<1>3. QED
  BY <1>1, <1>2

LEMMA WholeStep ==
    ASSUME TInv, NEW r \in Slots, Handler(r), \A u \in Ids : u < nextUser => Made(u) \/ Whole(u)
    PROVE  \A u \in Ids : u < nextUser' => Made(u)' \/ Whole(u)'
<1>1. /\ Flow(r) /\ Stage(r) /\ nextUser \in Nat /\ users \in [Ids -> User] /\ kit \in [Ids -> 0..4]
      /\ HandledBy(req[r])
  BY HandlerFlow DEF TInv, Basics, TypeOK, Handled
<1>2. Making(req[r]) => req[r].user \in Ids
  BY MakingKnown DEF TInv, Basics
<1>3. CASE UNCHANGED <<users, nextUser, kit, closed, proven>> /\ req[r].pc \notin {"create", "kit", "undo", "undo_kit"}
  <2> SUFFICES ASSUME NEW u \in Ids, u < nextUser PROVE Made(u)' \/ Whole(u)'
    BY <1>3
  <2>1. CASE Making(req[r]) /\ req[r].user = u
    <3>1. req[r].pc \in {"access", "refresh", "read_back", "verification"}
      BY <1>3, <2>1 DEF Making
    <3>2. kit[u] = 4 /\ (Live(u) \/ u \in closed)
      BY <1>1, <2>1, <3>1 DEF Stage
    <3>3. QED
      BY <1>3, <3>2 DEF Whole, Live
  <2>2. CASE ~(Making(req[r]) /\ req[r].user = u)
    BY <1>1, <1>3, <2>2, OthersWhole
  <2>3. QED
    BY <2>1, <2>2
<1>4. CASE Fail(r)
  <2>1. UNCHANGED <<users, nextUser, kit, closed>> /\ Guarded(r)
    BY <1>4 DEF Fail
  <2>2. req'[r].pc = "undo" /\ req'[r].user = req[r].user
    BY <1>4, <2>1, GotoFlow DEF Fail, Raise, TInv, Basics, TypeOK, ReqType, Guarded, Edge, Labels
  <2>3. req'[r].handler = req[r].handler /\ req[r].handler \in Provisioning
    BY <1>1, <2>1, <2>2, IdleFields DEF Flow, Follows, Guarded, Provisioning
  <2>4. Making(req'[r])
    BY <2>2, <2>3 DEF Making
  <2> SUFFICES ASSUME NEW u \in Ids, u < nextUser PROVE Made(u)' \/ Whole(u)'
    BY <2>1
  <2>5. CASE Making(req[r]) /\ req[r].user = u
    BY <2>2, <2>4, <2>5 DEF Made
  <2>6. QED
    BY <1>1, <2>1, <2>5, OthersWhole
<1>5. CASE GoogleVerify(r) \/ Convert(r) \/ SetVerified(r) \/ Rename(r)
  <2>1. UNCHANGED <<nextUser, kit, closed>> /\ \A u \in Ids : users'[u].live = users[u].live
    BY <1>5, LiveKept
  <2>2. ~Making(req[r])
    BY <1>5 DEF GoogleVerify, Convert, SetVerified, Rename, At, Making
  <2>3. QED
    BY <1>1, <2>1, <2>2, OthersWhole
<1>6. CASE CreateUser(r)
  <2>1. /\ req[r].pc = "create" /\ req'[r].pc = "kit" /\ req'[r].user = nextUser /\ nextUser \in Ids
        /\ UNCHANGED <<kit, closed>> /\ nextUser' = nextUser + 1
    BY <1>6, CreateUserFlow DEF TInv, CreateUser, At
  <2>2. req'[r].handler = req[r].handler /\ req[r].handler \in Provisioning
    BY <1>1, <2>1, IdleFields DEF Flow, Follows, HandledBy
  <2> SUFFICES ASSUME NEW u \in Ids, u < nextUser + 1 PROVE Made(u)' \/ Whole(u)'
    BY <2>1
  <2>4. CASE u = nextUser
    BY <2>1, <2>2, <2>4 DEF Made, Making
  <2>5. CASE u # nextUser
    <3>1. u < nextUser
      BY <1>1, <2>5 DEF Ids
    <3>2. users'[u] = users[u]
      BY <1>1, <1>6, <2>1, <2>5 DEF CreateUser
    <3>3. ~Making(req[r])
      BY <2>1 DEF Making
    <3>4. QED
      BY <1>1, <2>1, <3>1, <3>2, <3>3, OthersWhole
  <2>6. QED
    BY <2>4, <2>5
<1>7. CASE AddResource(r)
  <2>1. req[r].pc = "kit" /\ Making(req[r]) /\ UNCHANGED <<users, nextUser, closed>>
    BY <1>1, <1>7 DEF AddResource, At, HandledBy, Making
  <2>2. PICK v \in Ids : v = req[r].user
    BY <1>2, <2>1
  <2>3. kit' = [kit EXCEPT ![v] = kit[v] + 1]
    BY <1>7, <2>2 DEF AddResource
  <2>4. kit'[v] = kit[v] + 1 /\ \A u \in Ids : u # v => kit'[u] = kit[u]
    BY <1>1, <2>3
  <2>5. Made(v)' \/ Whole(v)'
    <3>1. CASE kit[v] = 3
      <4>1. kit'[v] = 4
        BY <2>4, <3>1
      <4>2. Live(v) \/ v \in closed
        BY <1>1, <2>1, <2>2 DEF Stage
      <4>3. QED
        BY <2>1, <4>1, <4>2 DEF Whole, Live
    <3>2. CASE kit[v] # 3
      <4>1. req' = req
        BY <1>7, <2>2, <3>2 DEF AddResource
      <4>2. QED
        BY <2>1, <2>2, <4>1 DEF Made
    <3>3. QED
      BY <3>1, <3>2
  <2> SUFFICES ASSUME NEW u \in Ids, u < nextUser PROVE Made(u)' \/ Whole(u)'
    BY <2>1
  <2>6. CASE u = v
    BY <2>5, <2>6
  <2>7. CASE u # v
    BY <1>1, <2>1, <2>2, <2>4, <2>7, OthersWhole
  <2>8. QED
    BY <2>6, <2>7
<1>8. CASE UndoUser(r)
  <2>1. /\ req[r].pc = "undo" /\ req[r].handler \in Provisioning /\ Making(req[r])
        /\ UNCHANGED <<nextUser, kit, closed>> /\ Goto(r, "undo_kit")
    BY <1>1, <1>8 DEF UndoUser, At, HandledBy, Making
  <2>2. PICK v \in Ids : v = req[r].user
    BY <1>2, <2>1
  <2>3. req'[r].pc = "undo_kit" /\ req'[r].user = v
    BY <2>1, <2>2, GotoFlow DEF TInv, Basics, TypeOK, ReqType, Edge, Labels
  <2>4. Making(req'[r])
    BY <1>1, <2>1, <2>3, IdleFields DEF Flow, Follows, Making
  <2>5. \A u \in Ids : u # v => users'[u] = users[u]
    BY <1>1, <1>8, <2>2 DEF UndoUser
  <2> SUFFICES ASSUME NEW u \in Ids, u < nextUser PROVE Made(u)' \/ Whole(u)'
    BY <2>1
  <2>6. CASE u = v
    BY <2>3, <2>4, <2>6 DEF Made
  <2>7. CASE u # v
    BY <1>1, <2>1, <2>2, <2>5, <2>7, OthersWhole
  <2>8. QED
    BY <2>6, <2>7
<1>9. CASE UndoKit(r)
  <2>1. req[r].pc = "undo_kit" /\ Making(req[r]) /\ UNCHANGED <<users, nextUser, closed>>
    BY <1>1, <1>9 DEF UndoKit, At, HandledBy, Making
  <2>2. PICK v \in Ids : v = req[r].user
    BY <1>2, <2>1
  <2>3. kit'[v] = 0 /\ \A u \in Ids : u # v => kit'[u] = kit[u]
    BY <1>1, <1>9, <2>2 DEF UndoKit
  <2>4. ~Live(v)
    BY <1>1, <2>1, <2>2 DEF Stage
  <2> SUFFICES ASSUME NEW u \in Ids, u < nextUser PROVE Made(u)' \/ Whole(u)'
    BY <2>1
  <2>5. CASE u = v
    BY <2>1, <2>3, <2>4, <2>5 DEF Whole, Live
  <2>6. CASE u # v
    BY <1>1, <2>1, <2>2, <2>3, <2>6, OthersWhole
  <2>7. QED
    BY <2>5, <2>6
<1>10. CASE RemoveUser(r)
  <2>1. /\ req[r].pc = "remove" /\ ~Making(req[r]) /\ UNCHANGED <<nextUser, kit>>
        /\ users' = [users EXCEPT ![req[r].user] = Nobody] /\ closed' = closed \cup {req[r].user}
    BY <1>10 DEF RemoveUser, At, Making
  <2>2. PICK v \in Ids : v = req[r].user
    BY <2>1 DEF TInv, Basics, UserKnown, HasUser
  <2>3. users'[v] = Nobody /\ \A u \in Ids : u # v => users'[u] = users[u]
    BY <1>1, <2>1, <2>2
  <2>4. v \in closed' /\ ~users'[v].live
    BY <2>1, <2>2, <2>3 DEF Nobody
  <2> SUFFICES ASSUME NEW u \in Ids, u < nextUser PROVE Made(u)' \/ Whole(u)'
    BY <2>1
  <2>5. CASE u = v
    BY <2>4, <2>5 DEF Whole, Live
  <2>6. CASE u # v
    BY <1>1, <2>1, <2>3, <2>6, OthersWhole
  <2>7. QED
    BY <2>5, <2>6
<1>11. QED
  BY <1>3, <1>4, <1>5, <1>6, <1>7, <1>8, <1>9, <1>10, PeopleWriters

LEMMA WholeInit == Init => WholeInv
<1> SUFFICES ASSUME Init, NEW u \in Ids, u < nextUser PROVE Whole(u)
  BY DEF WholeInv
<1>1. nextUser = (IF Settled THEN 2 ELSE 1) /\ u \in Nat /\ 1 <= u
  BY DEF Init, Ids
<1>2. Settled /\ u = 1
  BY <1>1
<1>3. kit[u] = 4 /\ users[u].live
  BY <1>2 DEF Init
<1>4. QED
  BY <1>3 DEF Whole, Live

LEMMA WholeNext == TInv /\ WholeInv /\ [Next]_vars => WholeInv'
<1> SUFFICES ASSUME TInv, WholeInv, [Next]_vars, kills' = 0
             PROVE  \A u \in Ids : u < nextUser' => Made(u)' \/ Whole(u)'
  BY DEF WholeInv
<1>1. kills \in Nat
  BY DEF TInv, Basics, TypeOK
<1>2. ASSUME NEW r \in Slots, Handler(r) PROVE \A u \in Ids : u < nextUser' => Made(u)' \/ Whole(u)'
  BY <1>2, CounterWriters, WholeStep DEF WholeInv
<1>3. ASSUME NEW r \in Slots, Call(r) PROVE \A u \in Ids : u < nextUser' => Made(u)' \/ Whole(u)'
  <2>1. Opened(r) /\ UNCHANGED <<users, nextUser, kit, closed, kills>>
    BY <1>3, CallOpens, CallWrites DEF TInv
  <2>2. \A s \in Slots : Making(req[s]) => req'[s] = req[s]
    BY <2>1 DEF Opened, Making
  <2>3. \A u \in Ids : Made(u) => Made(u)'
    BY <2>2 DEF Made
  <2>4. \A u \in Ids : Whole(u) => Whole(u)'
    BY <2>1 DEF Whole, Live
  <2>5. QED
    BY <2>1, <2>3, <2>4 DEF WholeInv
<1>4. ASSUME NEW r \in Slots, Kill(r) PROVE FALSE
  BY <1>1, <1>4 DEF Kill
<1>5. CASE Aside \/ UNCHANGED vars
  <2>1. UNCHANGED <<users, nextUser, kit, closed, kills, req>>
    BY <1>5, AsideWrites
  <2>2. QED
    BY <2>1 DEF WholeInv, Made, Whole, Live
<1>6. QED
  BY <1>2, <1>3, <1>4, <1>5, NextCases

\* As long as no worker is killed, an account is created as a whole or not at
\* all, however often the database fails and whatever else is in flight.
THEOREM AccountsAllOrNothing == Spec => [](kills = 0 => AllOrNothing)
<1>1. TInv /\ WholeInv => (kills = 0 => AllOrNothing)
  <2> SUFFICES ASSUME WholeInv, kills = 0, NEW u \in Ids, u < nextUser, ~Building(u)
               PROVE  Whole(u)
    BY DEF AllOrNothing, Whole
  <2>1. ~Made(u)
    BY DEF Made, Building, Making, Provisioning
  <2>2. QED
    BY <2>1 DEF WholeInv
<1>2. QED
  BY <1>1, TInvAlways, WholeInit, WholeNext, PTL DEF Spec

(***************************************************************************)
(* Guests and their handles.                                               *)
(***************************************************************************)
\* A rename that is under way and finds a guest leaves it its handle.
Renaming(r) ==
    req[r].pc \in {"name_owner", "rename"} =>
        /\ req[r].user < nextUser
        /\ Live(req[r].user) /\ users[req[r].user].guest => req[r].name = users[req[r].user].name

GuestInv == \A r \in Slots : Renaming(r)

\* Whoever is a guest after a step was one before, and has kept its handle.
LEMMA GuestStays ==
    ASSUME TInv, GuestInv, NEW r \in Slots, Handler(r), NEW v \in Ids, v < nextUser, users'[v].guest
    PROVE  users[v].guest /\ users'[v].live = users[v].live /\ users'[v].name = users[v].name
<1>1. users \in [Ids -> User] /\ users[v] \in User /\ nextUser \in Nat
  BY DEF TInv, Basics, TypeOK
<1>2. CASE UNCHANGED users
  BY <1>2
<1>3. CASE GoogleVerify(r) \/ SetVerified(r)
  <2>1. req[r].user \in Ids
    BY <1>3 DEF GoogleVerify, SetVerified, At, TInv, Basics, UserKnown, HasUser
  <2>2. PICK u \in Ids : u = req[r].user
    BY <2>1
  <2> DEFINE d == [users[u] EXCEPT !.verified = TRUE]
  <2>3. d.guest = users[u].guest /\ d.live = users[u].live /\ d.name = users[u].name
    BY <1>1 DEF User
  <2>4. users' = users \/ users' = [users EXCEPT ![u] = d]
    BY <1>3, <2>2 DEF GoogleVerify, SetVerified
  <2> HIDE DEF d
  <2>5. QED
    BY <1>1, <2>3, <2>4
<1>4. CASE Convert(r)
  <2>1. PICK u \in Ids : u = req[r].user
    BY <1>4 DEF Convert, At, TInv, Basics, UserKnown, HasUser
  <2> DEFINE d == [users[u] EXCEPT !.email = req[r].email, !.name = req[r].name, !.guest = FALSE, !.verified = FALSE]
  <2>2. d.guest = FALSE
    BY <1>1 DEF User
  <2>3. users' = users \/ users' = [users EXCEPT ![u] = d]
    BY <1>4, <2>1 DEF Convert
  <2> HIDE DEF d
  <2>4. QED
    BY <1>1, <2>2, <2>3
<1>5. CASE Rename(r)
  <2>1. req[r].pc = "rename"
    BY <1>5 DEF Rename, At
  <2>2. PICK u \in Ids : u = req[r].user
    BY <2>1 DEF TInv, Basics, UserKnown, HasUser
  <2>3. Live(u) /\ users[u].guest => req[r].name = users[u].name
    BY <2>1, <2>2 DEF GuestInv, Renaming
  <2> DEFINE d == [users[u] EXCEPT !.name = req[r].name]
  <2>4. d.guest = users[u].guest /\ d.live = users[u].live /\ d.name = req[r].name
    BY <1>1 DEF User
  <2>5. users' = IF Live(u) THEN [users EXCEPT ![u] = d] ELSE users
    BY <1>5, <2>2 DEF Rename
  <2> HIDE DEF d
  <2>6. QED
    BY <1>1, <2>3, <2>4, <2>5
<1>6. CASE CreateUser(r)
  <2>1. v # nextUser
    BY <1>1 DEF Ids
  <2>2. users'[v] = users[v]
    BY <1>1, <1>6, <2>1 DEF CreateUser
  <2>3. QED
    BY <2>2
<1>7. CASE UndoUser(r) \/ RemoveUser(r)
  <2>1. Nobody.guest = FALSE /\ users' = [users EXCEPT ![req[r].user] = Nobody]
    BY <1>7 DEF UndoUser, RemoveUser, Nobody
  <2>2. QED
    BY <1>1, <2>1
<1>8. QED
  BY <1>2, <1>3, <1>4, <1>5, <1>6, <1>7, PeopleWriters DEF Fail, AddResource, UndoKit

LEMMA NumbersGrow ==
    ASSUME TInv, NEW r \in Slots, Handler(r)
    PROVE  nextUser' \in {nextUser, nextUser + 1}
BY PeopleWriters, LiveKept DEF Fail, CreateUser, AddResource, UndoUser, UndoKit, RemoveUser

\* The step of r keeps the renames of the others, and its own if it goes on.
LEMMA RenamingStep ==
    ASSUME TInv, GuestInv, NEW r \in Slots, Handler(r)
    PROVE  GuestInv'
<1>1. Flow(r) /\ nextUser \in Nat /\ nextUser' \in {nextUser, nextUser + 1}
  BY HandlerFlow, NumbersGrow DEF TInv, Basics, TypeOK
<1> SUFFICES ASSUME NEW s \in Slots, req'[s].pc \in {"name_owner", "rename"} PROVE Renaming(s)'
  BY DEF GuestInv, Renaming
<1>2. /\ req[s].pc \in {"name_owner", "rename"}
      /\ req'[s].user = req[s].user /\ req'[s].name = req[s].name
  BY <1>1, IdleFields DEF Flow, Follows, Edge
<1>3. PICK u \in Ids : u = req[s].user
  BY <1>2 DEF TInv, Basics, UserKnown, HasUser
<1>4. u < nextUser /\ (Live(u) /\ users[u].guest => req[s].name = users[u].name)
  BY <1>2, <1>3 DEF GuestInv, Renaming
<1>5. u < nextUser'
  BY <1>1, <1>4 DEF Ids
<1>6. users'[u].live /\ users'[u].guest => req[s].name = users'[u].name
  BY <1>4, GuestStays DEF Live
<1>7. QED
  BY <1>2, <1>3, <1>5, <1>6 DEF Renaming, Live

LEMMA GuestInit == Init => GuestInv
BY IdleFields DEF Init, GuestInv, Renaming

LEMMA GuestNext == TInv /\ GuestInv /\ [Next]_vars => GuestInv'
<1> SUFFICES ASSUME TInv, GuestInv, [Next]_vars PROVE GuestInv'
  OBVIOUS
<1>1. ASSUME NEW r \in Slots, Handler(r) PROVE GuestInv'
  BY <1>1, RenamingStep
<1>2. ASSUME NEW r \in Slots, Call(r) PROVE GuestInv'
  <2>1. Opened(r) /\ UNCHANGED <<users, nextUser>>
    BY <1>2, CallOpens, CallWrites DEF TInv
  <2>2. \A s \in Slots : s # r => Renaming(s)'
    BY <2>1 DEF GuestInv, Renaming, Live, Opened
  <2>3. CASE req'[r].pc \in {"name_owner", "rename"}
    <3>1. RenameBegin(r)
      BY <1>2, <2>3, SignupOpens, GuestOpens, CallbackOpens, ExchangeOpens, LoginOpens, RefreshOpens,
         LogoutOpens, ConfirmOpens, UpgradeOpens, VerifyOpens, ResendOpens, RemoveOpens
         DEF Call, TInv
    <3>2. /\ req'[r].user \in Ids /\ Live(req'[r].user)
          /\ users[req'[r].user].guest => req'[r].name = users[req'[r].user].name
      BY <2>1, <2>3, <3>1, RenameOpens DEF TInv, Opened, Opens, HasUser
    <3>3. req'[r].user < nextUser
      <4>1. PICK u \in Ids : u = req'[r].user
        BY <3>2
      <4>2. ~(u >= nextUser)
        BY <3>2, <4>1 DEF TInv, Unborn, Nobody, Live
      <4>3. u < nextUser
        BY <4>2 DEF Ids, TInv, Basics, TypeOK
      <4>4. QED
        BY <4>1, <4>3
    <3>4. Renaming(r)'
      BY <2>1, <3>2, <3>3 DEF Renaming, Live
    <3>5. QED
      BY <2>2, <3>4 DEF GuestInv
  <2>4. CASE req'[r].pc \notin {"name_owner", "rename"}
    BY <2>2, <2>4 DEF GuestInv, Renaming
  <2>5. QED
    BY <2>3, <2>4
<1>3. ASSUME NEW r \in Slots, Kill(r) PROVE GuestInv'
  <2>1. Flow(r) /\ req'[r].pc = "idle" /\ UNCHANGED <<users, nextUser>>
    BY <1>3, ReturnFlow, IdleFields DEF Kill, TInv, Basics, TypeOK, ReqType
  <2>2. QED
    BY <2>1 DEF GuestInv, Renaming, Live, Flow
<1>4. CASE Aside \/ UNCHANGED vars
  <2>1. UNCHANGED <<users, nextUser, req>>
    BY <1>4, AsideWrites
  <2>2. QED
    BY <2>1 DEF GuestInv, Renaming, Live
<1>5. QED
  BY <1>1, <1>2, <1>3, <1>4, NextCases

\* A guest keeps its handle until it is a full account, whichever requests of
\* its tabs and of its would-be namesakes cross.
THEOREM AccountsGuestKeepsHandle == Spec => GuestKeepsHandle
<1> DEFINE Kept == \A u \in Ids : Live(u) /\ users[u].guest /\ users'[u].name # users[u].name => ~users'[u].guest
<1>1. TInv /\ GuestInv /\ [Next]_vars => Kept
  <2> SUFFICES ASSUME TInv, GuestInv, [Next]_vars, NEW u \in Ids, Live(u), users[u].guest, users'[u].guest
               PROVE  users'[u].name = users[u].name
    OBVIOUS
  <2>1. u < nextUser
    <3>1. ~(u >= nextUser)
      BY DEF TInv, Unborn, Nobody, Live
    <3>2. QED
      BY <3>1 DEF Ids, TInv, Basics, TypeOK
  <2>2. ASSUME NEW r \in Slots, Handler(r) PROVE users'[u].name = users[u].name
    BY <2>1, <2>2, GuestStays
  <2>3. ASSUME NEW r \in Slots, Call(r) PROVE users' = users
    BY <2>3, CallWrites
  <2>4. ASSUME NEW r \in Slots, Kill(r) PROVE users' = users
    BY <2>4 DEF Kill
  <2>5. CASE Aside \/ UNCHANGED vars
    BY <2>5, AsideWrites
  <2>6. QED
    BY <2>2, <2>3, <2>4, <2>5, NextCases
<1>2. TInv /\ GuestInv /\ [Next]_vars => [Kept]_vars
  BY <1>1
<1> HIDE DEF Kept
<1>3. Spec => []GuestInv
  BY TInvAlways, GuestInit, GuestNext, PTL DEF Spec
<1>4. Spec => [][Kept]_vars
  BY <1>2, <1>3, TInvAlways, PTL DEF Spec
<1>5. QED
  BY <1>4 DEF Kept, GuestKeepsHandle

(***************************************************************************)
(* Verified addresses.                                                     *)
(***************************************************************************)
\* No two upgrades of one account are between their check and their write.
OneUpgrade ==
    \A r, s \in Slots :
        /\ req[r].pc \in {"email_free", "convert"} /\ req[s].pc \in {"email_free", "convert"}
        /\ req[r].user = req[s].user
        => r = s

\* The address e was, and still is, the one of the full account v, unless v is
\* gone or nobody reads e.
Vouched(v, e) == v < nextUser /\ (e \in Emails /\ Live(v) => users[v].email = e /\ ~users[v].guest)

\* A request that will send a token to its address, or holds one from there.
Bound(q) ==
    \/ q.pc \in {"google_verify", "verify", "verification"}
    \/ /\ q.handler \in {"signup", "upgrade"}
       /\ q.pc \in {"kit", "access", "refresh", "read_back", "purge_refresh", "purge_access"}

Address(r) ==
    /\ Bound(req[r]) => Vouched(req[r].user, req[r].email)
    /\ req[r].pc \in {"find", "google_verify", "verify"} => req[r].email \in Emails
    /\ req[r].pc = "create" /\ req[r].handler = "guest" => req[r].email = Synthetic
    /\ req[r].pc \in {"email_free", "convert", "reload"} => req[r].user < nextUser
    /\ req[r].pc \in {"email_free", "convert"} /\ Live(req[r].user) => users[req[r].user].guest
    /\ req[r].pc = "reload" /\ Live(req[r].user) => ~users[req[r].user].guest

GuestsUnread == \A u \in Ids : Live(u) /\ users[u].guest => users[u].email = Synthetic

MailInv ==
    /\ GuestsUnread
    /\ \A v \in verifs : Vouched(v.user, v.to)
    /\ \A r \in Slots : Address(r)
    /\ VerifiedIsOwned

\* What a step may do to an account that was there before.
LEMMA UserStep ==
    ASSUME TInv, NEW r \in Slots, Handler(r), NEW v \in Ids, v < nextUser, users'[v].live
    PROVE  /\ users[v].live
           /\ proven[v] \subseteq proven'[v]
           /\ \/ Convert(r) /\ v = req[r].user /\ ~users'[v].guest /\ ~users'[v].verified
              \/ /\ users'[v].guest = users[v].guest /\ users'[v].email = users[v].email
                 /\ \/ users'[v].verified = users[v].verified
                    \/ /\ GoogleVerify(r) \/ SetVerified(r)
                       /\ v = req[r].user /\ req[r].email \in proven'[v]
<1>1. /\ users \in [Ids -> User] /\ users[v] \in User /\ nextUser \in Nat
      /\ proven \in [Ids -> SUBSET (Emails \cup {Synthetic})]
  BY DEF TInv, Basics, TypeOK
<1>2. CASE UNCHANGED <<users, proven>>
  BY <1>2
<1>3. CASE GoogleVerify(r) \/ SetVerified(r)
  <2>1. PICK u \in Ids : u = req[r].user
    BY <1>3 DEF GoogleVerify, SetVerified, At, TInv, Basics, UserKnown, HasUser
  <2> DEFINE d == [users[u] EXCEPT !.verified = TRUE]
  <2>2. users[u] \in User /\ d.guest = users[u].guest /\ d.live = users[u].live /\ d.email = users[u].email
    BY <1>1 DEF User
  <2>3. /\ users' = IF Live(u) THEN [users EXCEPT ![u] = d] ELSE users
        /\ \/ UNCHANGED proven /\ ~Live(u)
           \/ proven' = [proven EXCEPT ![u] = proven[u] \cup {req[r].email}]
    BY <1>3, <2>1 DEF GoogleVerify, SetVerified
  <2> HIDE DEF d
  <2>4. proven[v] \subseteq proven'[v] /\ (Live(u) => req[r].email \in proven'[u])
    BY <1>1, <2>3
  <2>5. CASE v # u \/ ~Live(u)
    <3>1. users'[v] = users[v]
      BY <1>1, <2>3, <2>5
    <3>2. QED
      BY <2>4, <3>1
  <2>6. CASE v = u /\ Live(u)
    <3>1. users'[v] = d
      BY <1>1, <2>3, <2>6
    <3>2. QED
      BY <1>3, <2>1, <2>2, <2>4, <2>6, <3>1 DEF Live
  <2>7. QED
    BY <2>5, <2>6
<1>4. CASE Convert(r)
  <2>1. PICK u \in Ids : u = req[r].user
    BY <1>4 DEF Convert, At, TInv, Basics, UserKnown, HasUser
  <2> DEFINE d == [users[u] EXCEPT !.email = req[r].email, !.name = req[r].name, !.guest = FALSE, !.verified = FALSE]
  <2>2. d.guest = FALSE /\ d.verified = FALSE
    BY <1>1 DEF User
  <2>3. users' = (IF Live(u) THEN [users EXCEPT ![u] = d] ELSE users) /\ proven' = proven
    BY <1>4, <2>1 DEF Convert
  <2> HIDE DEF d
  <2>4. CASE v # u \/ ~Live(u)
    <3>1. users'[v] = users[v]
      BY <1>1, <2>3, <2>4
    <3>2. QED
      BY <2>3, <3>1
  <2>5. CASE v = u /\ Live(u)
    <3>1. users'[v] = d
      BY <1>1, <2>3, <2>5
    <3>2. QED
      BY <1>4, <2>1, <2>2, <2>3, <2>5, <3>1 DEF Live
  <2>6. QED
    BY <2>4, <2>5
<1>5. CASE Rename(r)
  <2>1. PICK u \in Ids : u = req[r].user
    BY <1>5 DEF Rename, At, TInv, Basics, UserKnown, HasUser
  <2> DEFINE d == [users[u] EXCEPT !.name = req[r].name]
  <2>2. /\ d.guest = users[u].guest /\ d.live = users[u].live
        /\ d.email = users[u].email /\ d.verified = users[u].verified
    BY <1>1 DEF User
  <2>3. users' = (IF Live(u) THEN [users EXCEPT ![u] = d] ELSE users) /\ proven' = proven
    BY <1>5, <2>1 DEF Rename
  <2> HIDE DEF d
  <2>4. users'[v] = users[v] \/ (v = u /\ users'[v] = d)
    BY <1>1, <2>3
  <2>5. QED
    BY <2>2, <2>3, <2>4
<1>6. CASE CreateUser(r)
  <2>1. v # nextUser
    BY <1>1 DEF Ids
  <2>2. users'[v] = users[v] /\ proven'[v] = proven[v]
    BY <1>1, <1>6, <2>1 DEF CreateUser
  <2>3. QED
    BY <2>2
<1>7. CASE UndoUser(r) \/ RemoveUser(r)
  <2>1. Nobody.live = FALSE /\ users' = [users EXCEPT ![req[r].user] = Nobody] /\ proven' = proven
    BY <1>7 DEF UndoUser, RemoveUser, Nobody
  <2>2. users'[v] = users[v]
    BY <1>1, <2>1
  <2>3. QED
    BY <2>1, <2>2
<1>8. QED
  BY <1>2, <1>3, <1>4, <1>5, <1>6, <1>7, PeopleWriters DEF Fail, AddResource, UndoKit

\* Accounts come from CreateUser only.
LEMMA NewUser ==
    ASSUME TInv, NEW r \in Slots, Handler(r), NEW v \in Ids, users'[v].live, ~(v < nextUser)
    PROVE  CreateUser(r) /\ v = nextUser
<1>1. nextUser \in Nat /\ v \in Nat
  BY DEF TInv, Basics, TypeOK, Ids
<1>2. ~(v >= nextUser')
  <2>1. Unborn'
    BY HandlerTypes DEF TInv
  <2>2. v >= nextUser' => users'[v] = Nobody
    BY <2>1 DEF Unborn
  <2>3. QED
    BY <2>2 DEF Nobody
<1>3. nextUser' = nextUser + 1 /\ v = nextUser
  BY <1>1, <1>2, NumbersGrow
<1>4. nextUser' # nextUser
  BY <1>1, <1>3
<1>5. CreateUser(r)
  BY <1>4, PeopleWriters, LiveKept DEF Fail, AddResource, UndoUser, UndoKit, RemoveUser
<1>6. QED
  BY <1>3, <1>5

LEMMA LiveBorn == ASSUME TInv, NEW u \in Ids, Live(u) PROVE u < nextUser
<1>1. ~(u >= nextUser)
  BY DEF TInv, Unborn, Nobody, Live
<1>2. QED
  BY <1>1 DEF Ids, TInv, Basics, TypeOK

LEMMA BoundKnown == ASSUME TInv, NEW r \in Slots, Bound(req[r]) PROVE req[r].user \in Ids
BY DEF TInv, Basics, UserKnown, HasUser, Bound

LEMMA VouchedKept ==
    ASSUME TInv, MailInv, NEW r \in Slots, Handler(r), NEW v \in Ids, NEW e, Vouched(v, e)
    PROVE  v < nextUser' /\ (e \in Emails /\ users'[v].live => users'[v].email = e /\ ~users'[v].guest)
<1>1. v < nextUser'
  <2>1. v \in Nat /\ nextUser \in Nat /\ nextUser' \in {nextUser, nextUser + 1}
    BY NumbersGrow DEF TInv, Basics, TypeOK, Ids
  <2>2. v < nextUser
    BY DEF Vouched
  <2>3. QED
    BY <2>1, <2>2
<1> SUFFICES ASSUME e \in Emails, users'[v].live PROVE users'[v].email = e /\ ~users'[v].guest
  BY <1>1
<1>2. users[v].live /\ users[v].email = e /\ ~users[v].guest
  BY UserStep DEF Vouched, Live
<1>3. ~(Convert(r) /\ v = req[r].user)
  BY <1>2 DEF Convert, At, MailInv, Address, Live
<1>4. QED
  BY <1>2, <1>3, UserStep DEF Vouched

\* Where a request that is bound to its address comes from.
LEMMA BoundFlow ==
    ASSUME Handled, NEW r \in Slots, Flow(r), Bound(req'[r])
    PROVE  \/ Bound(req[r]) /\ req'[r].user = req[r].user /\ req'[r].email = req[r].email
           \/ req[r].pc = "find" /\ req'[r].pc = "google_verify" /\ req'[r].email = req[r].email
           \/ req[r].pc = "create" /\ req[r].handler = "signup" /\ req'[r].email = req[r].email
           \/ req[r].pc = "reload" /\ req'[r].pc = "purge_refresh"
<1>1. req'[r] # Idle
  BY IdleFields DEF Bound, Idle
<1>2. Edge(req[r], req'[r].pc) /\ req'[r].handler = req[r].handler /\ HandledBy(req[r])
  BY <1>1 DEF Flow, Follows, Handled
<1>3. CASE req[r].pc \in {"find", "create", "reload"}
  <2>1. CASE req[r].pc = "find"
    <3>1. req'[r].pc = "google_verify"
      BY <1>2, <2>1 DEF Edge, Bound, HandledBy
    <3>2. req'[r].email = req[r].email
      BY <1>1, <2>1 DEF Flow, Follows
    <3>3. QED
      BY <2>1, <3>1, <3>2
  <2>2. CASE req[r].pc = "create"
    <3>1. req[r].handler = "signup"
      BY <1>2, <2>2 DEF Edge, Bound, HandledBy, Provisioning
    <3>2. req'[r].email = req[r].email
      BY <1>1, <2>2 DEF Flow, Follows
    <3>3. QED
      BY <2>2, <3>1, <3>2
  <2>3. CASE req[r].pc = "reload"
    BY <1>2, <2>3 DEF Edge
  <2>4. QED
    BY <1>3, <2>1, <2>2, <2>3
<1>4. CASE req[r].pc \notin {"find", "create", "reload"}
  <2>1. req[r].pc # "match"
    BY <1>2 DEF Edge, Bound, HandledBy
  <2>2. Bound(req[r])
    BY <1>2, <1>4, <2>1 DEF Edge, Bound, HandledBy, Provisioning
  <2>3. QED
    BY <1>1, <1>4, <2>1, <2>2 DEF Flow, Follows
<1>5. QED
  BY <1>3, <1>4

\* The step of r binds r to an address only if that is the account's.
LEMMA BoundStep ==
    ASSUME TInv, MailInv, NEW r \in Slots, Handler(r), Bound(req'[r])
    PROVE  Vouched(req[r].user, req[r].email)'
<1>1. Flow(r) /\ Handled /\ Address(r)
  BY HandlerFlow DEF TInv, MailInv
<1>2. UserKnown'
  BY KnownStep DEF TInv
<1>3. req'[r].user \in Ids
  BY <1>2 DEF UserKnown, Bound, HasUser
<1>4. PICK v \in Ids : v = req'[r].user
  BY <1>3
<1>5. CASE Bound(req[r]) /\ req'[r].user = req[r].user /\ req'[r].email = req[r].email
  <2>1. Vouched(v, req'[r].email)
    BY <1>1, <1>4, <1>5 DEF Address
  <2>2. v < nextUser' /\ (req'[r].email \in Emails /\ users'[v].live => users'[v].email = req'[r].email /\ ~users'[v].guest)
    BY <2>1, VouchedKept
  <2>3. QED
    BY <1>4, <2>2 DEF Vouched, Live
<1>6. CASE req[r].pc = "find" /\ req'[r].pc = "google_verify" /\ req'[r].email = req[r].email
  <2>1. FindUser(r)
    BY <1>6, ChoosersOnly DEF CreateUser, MatchSession, At
  <2>2. v \in WithEmail(req[r].email) /\ UNCHANGED <<users, nextUser>>
    BY <1>4, <1>6, <2>1, FindUserFlow DEF TInv, FindUser
  <2>3. Live(v) /\ users[v].email = req[r].email /\ req[r].email \in Emails
    BY <1>1, <1>6, <2>2 DEF WithEmail, Address
  <2>4. v < nextUser /\ ~users[v].guest
    BY <2>3, LiveBorn, AccountsAssumption DEF MailInv, GuestsUnread
  <2>5. QED
    BY <1>4, <1>6, <2>2, <2>3, <2>4 DEF Vouched, Live
<1>7. CASE req[r].pc = "create" /\ req[r].handler = "signup" /\ req'[r].email = req[r].email
  <2>1. CreateUser(r)
    BY <1>7, ChoosersOnly DEF FindUser, MatchSession, At
  <2>2. v = nextUser /\ nextUser \in Nat /\ nextUser' = nextUser + 1
    BY <1>4, <2>1, CreateUserFlow DEF TInv, Basics, TypeOK, CreateUser
  <2>3. v < nextUser'
    BY <2>2
  <2>4. users' = [users EXCEPT ![v] = [live |-> TRUE, email |-> req[r].email, name |-> req[r].name,
                                       guest |-> req[r].handler = "guest", verified |-> req[r].ok]]
    BY <2>1, <2>2 DEF CreateUser
  <2>5. users'[v].email = req[r].email /\ ~users'[v].guest
    BY <1>7, <2>4 DEF TInv, Basics, TypeOK
  <2>6. QED
    BY <1>4, <1>7, <2>3, <2>5 DEF Vouched, Live
<1>8. CASE req[r].pc = "reload" /\ req'[r].pc = "purge_refresh"
  <2>1. Reload(r)
    BY <1>8 DEF Handler, CheckName, FindUser, GoogleVerify, CreateUser, AddResource, Fail, Guarded,
       UndoUser, UndoKit, IssueAccess, IssueRefresh, ReadBack, SendVerification, StoreExchange,
       PickUp, Reply, ClearJar, MatchSession, DropAccess, RejectRefresh, DropRefresh, SkipDelete,
       SetPassword, SpendReset, PurgeRefresh, PurgeAccess, CheckUpgrade, Convert, SetVerified,
       MarkVerified, CheckRename, Rename, RemoveUser, At
  <2>2. UNCHANGED <<users, nextUser>> /\ req'[r].email = users[req[r].user].email /\ req'[r].user = req[r].user
    BY <1>1, <1>8, <2>1, ReloadFlow, IdleFields DEF Reload, TInv, Flow, Follows
  <2>3. v < nextUser /\ (Live(v) => ~users[v].guest)
    BY <1>1, <1>4, <1>8, <2>2 DEF Address
  <2>4. QED
    BY <1>4, <2>2, <2>3 DEF Vouched, Live
<1>9. QED
  BY <1>1, <1>5, <1>6, <1>7, <1>8, BoundFlow

\* The other marks a request carries.
LEMMA MarksStep ==
    ASSUME TInv, MailInv, NEW r \in Slots, Handler(r)
    PROVE  /\ req'[r].pc \in {"find", "google_verify", "verify"} => req'[r].email \in Emails
           /\ req'[r].pc = "create" /\ req'[r].handler = "guest" => req'[r].email = Synthetic
           /\ req'[r].pc # "email_free"
           /\ req'[r].pc = "convert" => req[r].pc = "email_free" /\ CheckUpgrade(r)
           /\ req'[r].pc = "reload" => req[r].pc = "convert" /\ Convert(r)
           /\ req'[r].pc \in {"convert", "reload"} => req'[r].user = req[r].user
<1>1. Flow(r) /\ HandledBy(req[r]) /\ Address(r)
  BY HandlerFlow DEF TInv, MailInv, Handled
<1>2. req'[r].pc \in {"find", "google_verify", "verify"} => req'[r].email \in Emails
  <2> SUFFICES ASSUME req'[r].pc \in {"find", "google_verify", "verify"} PROVE req'[r].email \in Emails
    OBVIOUS
  <2>1. req[r].pc = "find" /\ req'[r].email = req[r].email
    BY <1>1, IdleFields DEF Flow, Follows, Edge
  <2>2. QED
    BY <1>1, <2>1 DEF Address
<1>3. req'[r].pc = "create" => req'[r].handler # "guest"
  BY <1>1, IdleFields DEF Flow, Follows, Edge, HandledBy
<1>4. /\ req'[r].pc # "email_free"
      /\ req'[r].pc = "convert" => req[r].pc = "email_free"
      /\ req'[r].pc = "reload" => req[r].pc = "convert"
      /\ req'[r].pc \in {"convert", "reload"} => req'[r].user = req[r].user
  BY <1>1, IdleFields DEF Flow, Follows, Edge
<1>5. req[r].pc = "convert" => Convert(r)
  BY MarkersOnly DEF SetPassword, RemoveUser, PurgeRefresh, At
<1>6. req[r].pc = "email_free" => CheckUpgrade(r)
  BY DEF Handler, CheckName, FindUser, GoogleVerify, CreateUser, AddResource, Fail, Guarded,
     UndoUser, UndoKit, IssueAccess, IssueRefresh, ReadBack, SendVerification, StoreExchange,
     PickUp, Reply, ClearJar, MatchSession, DropAccess, RejectRefresh, DropRefresh, SkipDelete,
     SetPassword, SpendReset, PurgeRefresh, PurgeAccess, Convert, Reload, SetVerified,
     MarkVerified, CheckRename, Rename, RemoveUser, At
<1>7. QED
  BY <1>2, <1>3, <1>4, <1>5, <1>6

LEMMA OwnAddress ==
    ASSUME TInv, MailInv, NEW r \in Slots, Handler(r)
    PROVE  Address(r)'
<1>1. Bound(req'[r]) => Vouched(req[r].user, req[r].email)'
  BY BoundStep
<1>2. Flow(r) /\ HandledBy(req[r]) /\ Address(r) /\ nextUser \in Nat /\ nextUser' \in {nextUser, nextUser + 1}
  BY HandlerFlow, NumbersGrow DEF TInv, MailInv, Handled, Basics, TypeOK
<1>3. CASE req'[r].pc = "convert"
  <2>1. req[r].pc = "email_free" /\ CheckUpgrade(r) /\ req'[r].user = req[r].user
    BY <1>3, MarksStep
  <2>2. UNCHANGED <<users, nextUser>>
    BY <2>1 DEF CheckUpgrade
  <2>3. ~Bound(req'[r])
    BY <1>3 DEF Bound
  <2>4. QED
    BY <1>2, <1>3, <2>1, <2>2, <2>3 DEF Address, Live
<1>4. CASE req'[r].pc = "reload"
  <2>1. req[r].pc = "convert" /\ Convert(r) /\ req'[r].user = req[r].user
    BY <1>4, MarksStep
  <2>2. PICK v \in Ids : v = req[r].user
    BY <2>1 DEF TInv, Basics, UserKnown, HasUser
  <2>3. v < nextUser /\ nextUser' = nextUser
    BY <1>2, <2>1, <2>2 DEF Address, Convert
  <2>4. users'[v].live => ~users'[v].guest
    <3> DEFINE d == [users[v] EXCEPT !.email = req[r].email, !.name = req[r].name, !.guest = FALSE, !.verified = FALSE]
    <3>1. users \in [Ids -> User] /\ users[v] \in User
      BY DEF TInv, Basics, TypeOK
    <3>2. d.guest = FALSE
      BY <3>1 DEF User
    <3>3. users' = IF Live(v) THEN [users EXCEPT ![v] = d] ELSE users
      BY <2>1, <2>2 DEF Convert
    <3> HIDE DEF d
    <3>4. QED
      BY <3>1, <3>2, <3>3 DEF Live
  <2>5. ~Bound(req'[r])
    BY <1>4 DEF Bound
  <2>6. QED
    BY <1>4, <2>1, <2>2, <2>3, <2>4, <2>5 DEF Address, Live
<1>5. CASE req'[r].pc \notin {"convert", "reload"}
  BY <1>1, <1>5, MarksStep DEF Address
<1>6. QED
  BY <1>3, <1>4, <1>5

LEMMA OthersAddress ==
    ASSUME TInv, MailInv, OneUpgrade, NEW r \in Slots, Handler(r), NEW s \in Slots, s # r
    PROVE  Address(s)'
<1>1. /\ req'[s] = req[s] /\ Address(s) /\ nextUser \in Nat /\ nextUser' \in {nextUser, nextUser + 1}
  BY HandlerFlow, NumbersGrow DEF TInv, MailInv, Basics, TypeOK, Flow
<1>2. CASE Bound(req[s])
  <2>1. PICK v \in Ids : v = req[s].user
    BY <1>2, BoundKnown
  <2>2. v < nextUser' /\ (req[s].email \in Emails /\ users'[v].live => users'[v].email = req[s].email /\ ~users'[v].guest)
    BY <1>1, <1>2, <2>1, VouchedKept DEF Address
  <2>3. Vouched(req[s].user, req[s].email)'
    BY <1>1, <2>1, <2>2 DEF Vouched, Live
  <2>4. req[s].pc \notin {"email_free", "convert", "reload"}
    BY <1>2 DEF Bound
  <2>5. QED
    BY <1>1, <2>3, <2>4 DEF Address
<1>3. CASE req[s].pc \in {"email_free", "convert", "reload"}
  <2>1. PICK v \in Ids : v = req[s].user
    BY <1>3 DEF TInv, Basics, UserKnown, HasUser
  <2>2. v < nextUser
    BY <1>1, <1>3, <2>1 DEF Address
  <2>3. v < nextUser'
    BY <1>1, <2>2 DEF Ids
  <2>4. CASE req[s].pc = "reload"
    <3>1. users'[v].live => ~users'[v].guest
      BY <1>1, <2>1, <2>2, <2>4, UserStep DEF Address, Live
    <3>2. QED
      BY <1>1, <2>1, <2>3, <2>4, <3>1 DEF Address, Bound, Live
  <2>5. CASE req[s].pc \in {"email_free", "convert"}
    <3>1. ~(Convert(r) /\ v = req[r].user)
      BY <2>1, <2>5 DEF OneUpgrade, Convert, At
    <3>2. users'[v].live => users'[v].guest
      BY <1>1, <2>1, <2>2, <2>5, <3>1, UserStep DEF Address, Live
    <3>3. QED
      BY <1>1, <2>1, <2>3, <2>5, <3>2 DEF Address, Bound, Live
  <2>6. QED
    BY <1>3, <2>4, <2>5
<1>4. CASE ~Bound(req[s]) /\ req[s].pc \notin {"email_free", "convert", "reload"}
  BY <1>1, <1>4 DEF Address
<1>5. QED
  BY <1>2, <1>3, <1>4

LEMMA GuestsStep ==
    ASSUME TInv, MailInv, NEW r \in Slots, Handler(r)
    PROVE  GuestsUnread'
<1> SUFFICES ASSUME NEW v \in Ids, users'[v].live, users'[v].guest PROVE users'[v].email = Synthetic
  BY DEF GuestsUnread, Live
<1>1. CASE v < nextUser
  BY <1>1, UserStep DEF MailInv, GuestsUnread, Live
<1>2. CASE ~(v < nextUser)
  <2>1. CreateUser(r) /\ v = nextUser
    BY <1>2, NewUser
  <2>2. users'[v] = [live |-> TRUE, email |-> req[r].email, name |-> req[r].name,
                     guest |-> req[r].handler = "guest", verified |-> req[r].ok]
    BY <2>1 DEF CreateUser, TInv, Basics, TypeOK
  <2>3. req[r].handler = "guest" /\ req[r].pc = "create"
    <3> DEFINE g == req[r].handler = "guest"
    <3>1. users'[v] = [live |-> TRUE, email |-> req[r].email, name |-> req[r].name, guest |-> g, verified |-> req[r].ok]
      BY <2>2
    <3> HIDE DEF g
    <3>2. users'[v].guest = g
      BY <3>1
    <3> USE DEF g
    <3>3. QED
      BY <2>1, <3>2 DEF CreateUser, At
  <2>4. QED
    BY <2>2, <2>3 DEF MailInv, Address
<1>3. QED
  BY <1>1, <1>2

LEMMA OwnedStep ==
    ASSUME TInv, MailInv, NEW r \in Slots, Handler(r)
    PROVE  VerifiedIsOwned'
<1> SUFFICES ASSUME NEW v \in Ids, users'[v].live, users'[v].verified PROVE users'[v].email \in proven'[v]
  BY DEF VerifiedIsOwned, Live
<1>1. CASE v < nextUser
  <2>1. /\ users[v].live /\ proven[v] \subseteq proven'[v] /\ users'[v].email = users[v].email
        /\ \/ users'[v].verified = users[v].verified
           \/ /\ GoogleVerify(r) \/ SetVerified(r)
              /\ v = req[r].user /\ req[r].email \in proven'[v]
    BY <1>1, UserStep
  <2>2. CASE users'[v].verified = users[v].verified
    BY <2>1, <2>2 DEF MailInv, VerifiedIsOwned, Live
  <2>3. CASE (GoogleVerify(r) \/ SetVerified(r)) /\ v = req[r].user /\ req[r].email \in proven'[v]
    <3>1. req[r].pc \in {"google_verify", "verify"}
      BY <2>3 DEF GoogleVerify, SetVerified, At
    <3>2. users[v].email = req[r].email
      BY <2>1, <2>3, <3>1 DEF MailInv, Address, Bound, Vouched, Live
    <3>3. QED
      BY <2>1, <2>3, <3>2
  <2>4. QED
    BY <2>1, <2>2, <2>3
<1>2. CASE ~(v < nextUser)
  <2>1. CreateUser(r) /\ v = nextUser
    BY <1>2, NewUser
  <2>2. users'[v] = [live |-> TRUE, email |-> req[r].email, name |-> req[r].name,
                     guest |-> req[r].handler = "guest", verified |-> req[r].ok]
        /\ proven'[v] = (IF req[r].ok THEN {req[r].email} ELSE {})
    BY <2>1 DEF CreateUser, TInv, Basics, TypeOK
  <2>3. QED
    BY <2>2
<1>3. QED
  BY <1>1, <1>2

LEMMA TokensSent ==
    ASSUME TInv, MailInv, NEW r \in Slots, Handler(r)
    PROVE  \A v \in verifs' : Vouched(v.user, v.to)'
<1>1. verifs \subseteq [id : Nat, user : Ids, to : Emails \cup {Synthetic}, used : BOOLEAN]
  BY DEF TInv, Basics, TypeOK
<1>2. \A v \in verifs : Vouched(v.user, v.to)'
  <2> SUFFICES ASSUME NEW v \in verifs PROVE Vouched(v.user, v.to)'
    OBVIOUS
  <2>1. v.user \in Ids /\ Vouched(v.user, v.to)
    BY <1>1 DEF MailInv
  <2>2. PICK u \in Ids, e \in {v.to} : u = v.user
    BY <2>1
  <2>3. u < nextUser' /\ (e \in Emails /\ users'[u].live => users'[u].email = e /\ ~users'[u].guest)
    BY <2>1, <2>2, VouchedKept
  <2>4. QED
    BY <2>2, <2>3 DEF Vouched, Live
<1>3. CASE verifs' \subseteq verifs
  BY <1>2, <1>3
<1>4. CASE MarkVerified(r)
  <2>1. \A v \in verifs' : \E w \in verifs : v.user = w.user /\ v.to = w.to
    <3>1. verifs' = {IF w.id = req[r].item THEN [w EXCEPT !.used = TRUE] ELSE w : w \in verifs}
      BY <1>4 DEF MarkVerified
    <3>2. \A w \in verifs : [w EXCEPT !.used = TRUE].user = w.user /\ [w EXCEPT !.used = TRUE].to = w.to
      BY <1>1
    <3>3. QED
      BY <3>1, <3>2
  <2>2. QED
    BY <1>2, <2>1
<1>5. CASE SendVerification(r)
  <2>1. req[r].pc = "verification" /\ UNCHANGED <<users, nextUser>>
        /\ verifs' = verifs \cup {[id |-> nextId, user |-> req[r].user, to |-> req[r].email, used |-> FALSE]}
    BY <1>5 DEF SendVerification, At
  <2>2. Vouched(req[r].user, req[r].email)
    BY <2>1 DEF MailInv, Address, Bound
  <2>3. \A v \in verifs' : v \in verifs \/ (v.user = req[r].user /\ v.to = req[r].email)
    BY <2>1
  <2>4. \A v \in verifs' : Vouched(v.user, v.to)
    BY <2>2, <2>3 DEF MailInv
  <2>5. QED
    BY <2>1, <2>4 DEF Vouched, Live
<1>6. QED
  BY <1>3, <1>4, <1>5, MailWriters DEF UndoKit, SpendReset, StoreExchange

LEMMA MailInit == Init => MailInv
<1> SUFFICES ASSUME Init PROVE MailInv
  OBVIOUS
<1>1. \A u \in Ids : ~users[u].guest /\ ~users[u].verified
  BY DEF Init, Nobody
<1>2. \A r \in Slots : req[r].pc = "idle"
  BY IdleFields DEF Init
<1>3. verifs = {}
  BY DEF Init
<1>4. \A r \in Slots : Address(r)
  BY <1>2 DEF Address, Bound
<1>5. QED
  BY <1>1, <1>3, <1>4 DEF MailInv, GuestsUnread, VerifiedIsOwned

LEMMA MailOpened ==
    ASSUME TInv, MailInv, NEW r \in Slots, Call(r)
    PROVE  Address(r)'
<1>1. Opened(r) /\ UNCHANGED <<users, nextUser>>
  BY CallOpens, CallWrites DEF TInv
<1>2. req'[r].pc \in HasUser => req'[r].user \in Ids
  BY <1>1 DEF Opened, Opens
<1>3. CASE UpgradeBegin(r)
  <2>1. /\ req'[r].pc = "email_free" /\ Live(req'[r].user) /\ users[req'[r].user].guest
        /\ req'[r].user \in Ids
    BY <1>2, <1>3, UpgradeOpens DEF TInv, HasUser
  <2>2. PICK v \in Ids : v = req'[r].user
    BY <2>1
  <2>3. v < nextUser
    BY <2>1, <2>2, LiveBorn
  <2>4. QED
    BY <1>1, <2>1, <2>2, <2>3 DEF Address, Bound, Live
<1>4. CASE VerifyBegin(r)
  <2>1. req'[r].pc = "verify"
    BY <1>4, VerifyOpens DEF TInv
  <2>2. PICK v \in verifs : v.to \in Emails /\ req'[r].user = v.user /\ req'[r].email = v.to
    BY <1>4, VerifyOpens DEF TInv
  <2>3. Vouched(v.user, v.to)
    BY DEF MailInv
  <2>4. QED
    BY <1>1, <2>1, <2>2, <2>3 DEF Address, Vouched, Live
<1>5. CASE ResendBegin(r)
  <2>1. /\ req'[r].pc = "verification" /\ Live(req'[r].user)
        /\ req'[r].email = users[req'[r].user].email /\ req'[r].user \in Ids
    BY <1>2, <1>5, ResendOpens DEF TInv, HasUser
  <2>2. PICK v \in Ids : v = req'[r].user
    BY <2>1
  <2>3. v < nextUser
    BY <2>1, <2>2, LiveBorn
  <2>4. users[v].email \in Emails => ~users[v].guest
    BY <2>1, <2>2, AccountsAssumption DEF MailInv, GuestsUnread
  <2>5. QED
    BY <1>1, <2>1, <2>2, <2>3, <2>4 DEF Address, Vouched, Live
<1>6. CASE /\ req'[r].pc \notin {"email_free", "convert", "reload", "google_verify", "verify", "verification"}
           /\ ~Bound(req'[r])
  BY <1>1, <1>6 DEF Address, Opened, Opens
<1>7. CASE req'[r].pc \notin {"email_free", "verify", "verification"}
  BY <1>1, <1>6, <1>7 DEF Opened, Opens, Bound
<1>8. QED
  BY <1>3, <1>4, <1>5, <1>7, SignupOpens, GuestOpens, CallbackOpens, ExchangeOpens, LoginOpens,
     RefreshOpens, LogoutOpens, ConfirmOpens, RenameOpens, RemoveOpens DEF Call, TInv

LEMMA MailNext == TInv /\ MailInv /\ OneUpgrade /\ [Next]_vars => MailInv'
<1> SUFFICES ASSUME TInv, MailInv, OneUpgrade, [Next]_vars PROVE MailInv'
  OBVIOUS
<1>1. ASSUME NEW r \in Slots, Handler(r) PROVE MailInv'
  <2>1. \A s \in Slots : Address(s)'
    BY <1>1, OwnAddress, OthersAddress
  <2>2. QED
    BY <1>1, <2>1, GuestsStep, OwnedStep, TokensSent DEF MailInv
<1>2. ASSUME NEW r \in Slots, req' \in [Slots -> Request], \A s \in Slots : s # r => req'[s] = req[s],
             UNCHANGED <<users, nextUser, verifs, proven>>, Address(r)'
      PROVE  MailInv'
  <2>1. \A s \in Slots : s # r => Address(s)'
    BY <1>2 DEF MailInv, Address, Vouched, Live
  <2>2. \A s \in Slots : Address(s)'
    BY <1>2, <2>1
  <2>3. GuestsUnread' /\ VerifiedIsOwned' /\ \A v \in verifs' : Vouched(v.user, v.to)'
    BY <1>2 DEF MailInv, GuestsUnread, VerifiedIsOwned, Vouched, Live
  <2>4. QED
    BY <2>2, <2>3 DEF MailInv
<1>3. ASSUME NEW r \in Slots, Call(r) PROVE MailInv'
  BY <1>2, <1>3, CallOpens, CallWrites, MailOpened DEF TInv, Opened
<1>4. ASSUME NEW r \in Slots, Kill(r) PROVE MailInv'
  <2>1. Flow(r) /\ req'[r].pc = "idle" /\ UNCHANGED <<users, nextUser, verifs, proven>>
    BY <1>4, ReturnFlow, IdleFields DEF Kill, TInv, Basics, TypeOK, ReqType
  <2>2. Address(r)'
    BY <2>1 DEF Address, Bound
  <2>3. QED
    BY <1>2, <2>1, <2>2 DEF Flow
<1>5. CASE Aside \/ UNCHANGED vars
  <2>1. UNCHANGED <<users, nextUser, verifs, proven, req>>
    BY <1>5, AsideWrites
  <2>2. QED
    BY <2>1 DEF MailInv, GuestsUnread, VerifiedIsOwned, Address, Vouched, Live
<1>6. QED
  BY <1>1, <1>3, <1>4, <1>5, NextCases

\* A verified address was shown to belong to the client, in every behaviour in
\* which no account is upgraded twice at once.
THEOREM AccountsVerifiedIsOwned == Spec /\ []OneUpgrade => []VerifiedIsOwned
<1>1. MailInv => VerifiedIsOwned
  BY DEF MailInv
<1>2. QED
  BY <1>1, TInvAlways, MailInit, MailNext, PTL DEF Spec

(***************************************************************************)
(* Sessions.                                                               *)
(***************************************************************************)
\* A refresh token that is stored, or was ended with all others of its user.
Safe(i) == i = 0 \/ i \in purged \/ \E t \in refresh : t.id = i

\* If the refresh token i is stored, p is the access token issued with it.
IssuedWith(i, p) == \A t \in refresh : t.id = i => t.prev = p

\* The labels before a request has issued its refresh token.
Early == {"name", "create", "find", "google_verify", "kit", "match", "password", "spend",
          "purge_refresh", "purge_access", "email_free", "convert", "reload", "remove", "access",
          "refresh"}

Session(r) ==
    /\ req[r].old.refresh \in kept[Client(r)] \cup {0}
    /\ Safe(req[r].new.refresh) /\ req[r].new.refresh < nextId
    /\ IssuedWith(req[r].new.refresh, req[r].new.access)
    /\ req[r].pc \in Early => req[r].new.refresh = 0
    /\ req[r].pc = "match" /\ jar[Client(r)].refresh = req[r].old.refresh =>
          IssuedWith(req[r].old.refresh, req[r].old.access)
    /\ req[r].pc = "reject" => req[r].old.refresh # 0 /\ jar[Client(r)].refresh # req[r].old.refresh

\* What a browser holds.  While a token it names is missing, a response is on
\* its way that will replace it.
Cookies(c) ==
    /\ jar[c].refresh \in kept[c] \cup {0}
    /\ \A i \in kept[c] : i < nextId
    /\ jar[c].access # 0 => IssuedWith(jar[c].refresh, jar[c].access)
    /\ \/ Safe(jar[c].refresh) \/ c \in torn
       \/ \E r \in Slots : Client(r) = c /\ req[r].pc \in {"reply", "clear"}

Parked(k) ==
    /\ Safe(k.pair.refresh) /\ k.pair.refresh < nextId
    /\ IssuedWith(k.pair.refresh, k.pair.access)

Numbered ==
    /\ 1 <= nextId /\ \A t \in refresh : 1 <= t.id /\ t.id < nextId
    /\ \A t, k \in refresh : t.id = k.id => t = k

\* A refresh token is in one place: on its way with one request or one code,
\* or with one browser.
OneRequest == \A r, s \in Slots : req[r].new.refresh = req[s].new.refresh => r = s \/ req[r].new.refresh = 0
OneCode    == \A k, l \in codes : k.pair.refresh = l.pair.refresh => k = l \/ k.pair.refresh = 0
OneKeeper  == \A c, d \in Clients : \A i \in kept[c] \cap kept[d] : c = d \/ i = 0
Unsent ==
    /\ \A r \in Slots, c \in Clients : req[r].new.refresh \in kept[c] => req[r].new.refresh = 0
    /\ \A k \in codes, c \in Clients : k.pair.refresh \in kept[c] => k.pair.refresh = 0
    /\ \A k \in codes, r \in Slots : k.pair.refresh = req[r].new.refresh => k.pair.refresh = 0
Apart == OneRequest /\ OneCode /\ OneKeeper /\ Unsent

SessionInv ==
    /\ Numbered /\ Apart
    /\ \A r \in Slots : Session(r)
    /\ \A c \in Clients : Cookies(c)
    /\ \A k \in codes : Parked(k)

LEMMA SessionTypes ==
    TInv => /\ nextId \in Nat /\ \A t \in refresh : t.id \in Nat /\ t.prev \in Nat
            /\ \A r \in Slots : /\ Client(r) \in Clients
                                /\ req[r].new \in Pair /\ req[r].new.refresh \in Nat /\ req[r].new.access \in Nat
                                /\ req[r].old \in Pair /\ req[r].old.refresh \in Nat /\ req[r].old.access \in Nat
            /\ \A c \in Clients : /\ jar[c] \in Pair /\ jar[c].refresh \in Nat /\ jar[c].access \in Nat
                                  /\ kept[c] \subseteq Nat
            /\ \A k \in codes : k.pair \in Pair /\ k.pair.refresh \in Nat /\ k.pair.access \in Nat
BY AccountsAssumption DEF TInv, Basics, TypeOK, Refresh, Client, Request, Pair

\* The labels at which only one step is possible.
LEMMA IssuersOnly ==
    ASSUME NEW r \in Slots, Handler(r),
           req[r].pc \in {"access", "refresh", "reply", "clear", "reject", "drop_refresh"}
    PROVE  Fail(r) \/ IssueAccess(r) \/ IssueRefresh(r) \/ Reply(r) \/ ClearJar(r) \/ RejectRefresh(r)
           \/ DropRefresh(r) \/ SkipDelete(r)
BY DEF Handler, CheckName, FindUser, GoogleVerify, CreateUser, AddResource, UndoUser,
   UndoKit, ReadBack, SendVerification, StoreExchange, PickUp, MatchSession, DropAccess, SetPassword,
   SpendReset, PurgeRefresh, PurgeAccess, CheckUpgrade, Convert, Reload, SetVerified, MarkVerified,
   CheckRename, Rename, RemoveUser, At

LEMMA FailGoes ==
    ASSUME TInv, NEW r \in Slots, Fail(r)
    PROVE  /\ req'[r].pc = "undo" /\ UNCHANGED <<refresh, purged, nextId, codes, jar, kept>>
           /\ req[r].pc \notin {"reply", "clear", "reject", "drop_refresh"}
<1>1. Guarded(r) /\ UNCHANGED <<refresh, purged, nextId, codes, jar, kept>>
  BY DEF Fail
<1>2. req'[r].pc = "undo"
  BY <1>1, GotoFlow DEF Fail, Raise, TInv, Basics, TypeOK, ReqType, Guarded, Edge, Labels
<1>3. QED
  BY <1>1, <1>2 DEF Guarded

\* Tokens are issued at the label after theirs, and nowhere else.
LEMMA IssuedWhere ==
    ASSUME TInv, NEW r \in Slots, Handler(r)
    PROVE  /\ req'[r].pc = "read_back" => IssueRefresh(r)
           /\ req'[r].pc = "refresh" => req[r].pc = "access"
           /\ req'[r].pc = "reject" => MatchSession(r)
<1>1. Flow(r)
  BY HandlerFlow DEF TInv
<1>2. /\ req'[r].pc = "read_back" => req[r].pc = "refresh"
      /\ req'[r].pc = "refresh" => req[r].pc = "access"
      /\ req'[r].pc = "reject" => req[r].pc = "match"
  BY <1>1, IdleFields DEF Flow, Follows, Edge
<1>3. req'[r].pc = "read_back" => IssueRefresh(r)
  <2> SUFFICES ASSUME req'[r].pc = "read_back" PROVE IssueRefresh(r)
    OBVIOUS
  <2>1. req[r].pc = "refresh" /\ ~Fail(r)
    BY <1>2, FailGoes
  <2>2. QED
    BY <2>1, IssuersOnly DEF IssueAccess, Reply, ClearJar, RejectRefresh, DropRefresh, SkipDelete, At
<1>4. req'[r].pc = "reject" => MatchSession(r)
  BY <1>2, ChoosersOnly DEF FindUser, CreateUser, At
<1>5. QED
  BY <1>2, <1>3, <1>4

\* What a step of a handler does to the refresh tokens.
Issues(r) ==
    /\ refresh' = refresh \cup {[id |-> nextId, user |-> req[r].user, prev |-> req[r].new.access]}
    /\ nextId' = nextId + 1 /\ purged' = purged
    /\ req[r].pc = "refresh" /\ req'[r].pc = "read_back"
    /\ req'[r].new.refresh = nextId /\ req'[r].new.access = req[r].new.access
Drops(r) ==
    /\ refresh' = {t \in refresh : t.id # req[r].old.refresh}
    /\ UNCHANGED <<purged, nextId>> /\ req[r].pc \in {"reject", "drop_refresh"}
    /\ req'[r].pc # "read_back"
Purges ==
    \E mine \in SUBSET refresh : /\ refresh' = refresh \ mine /\ purged' = purged \cup {t.id : t \in mine}
                                 /\ nextId' = nextId
Spares == UNCHANGED <<refresh, purged>> /\ nextId' \in {nextId, nextId + 1}

LEMMA RefreshWrites ==
    ASSUME TInv, NEW r \in Slots, Handler(r)
    PROVE  \/ Issues(r)
           \/ req'[r].pc # "read_back" /\ (Drops(r) \/ Purges \/ Spares)
<1>1. CASE IssueRefresh(r)
  <2>1. req[r].pc = "refresh" /\ purged' = purged /\ req[r].new \in Pair /\ nextId \in Nat
    BY <1>1, SessionTypes DEF IssueRefresh, At
  <2>2. CASE UNCHANGED <<refresh, nextId>> /\ req'[r].pc # "read_back"
    BY <2>1, <2>2 DEF Spares
  <2>3. CASE /\ refresh' = refresh \cup {[id |-> nextId, user |-> req[r].user, prev |-> req[r].new.access]}
             /\ nextId' = nextId + 1
             /\ req'[r].pc = "read_back" /\ req'[r].new = [req[r].new EXCEPT !.refresh = nextId]
    <3>1. req'[r].new.refresh = nextId /\ req'[r].new.access = req[r].new.access
      BY <2>1, <2>3 DEF Pair
    <3>2. QED
      BY <2>1, <2>3, <3>1 DEF Issues
  <2>4. QED
    BY <1>1, <2>2, <2>3, IssueRefreshFlow DEF TInv
<1>2. CASE ~IssueRefresh(r)
  <2>1. req'[r].pc # "read_back"
    BY <1>2, IssuedWhere
  <2>2. CASE RejectRefresh(r) \/ DropRefresh(r)
    BY <2>1, <2>2 DEF RejectRefresh, DropRefresh, Drops, At
  <2>3. CASE PurgeRefresh(r)
    <3> DEFINE mine == {t \in refresh : t.user = req[r].user}
    <3>1. mine \in SUBSET refresh
      OBVIOUS
    <3>2. refresh' = refresh \ mine /\ purged' = purged \cup {t.id : t \in mine} /\ nextId' = nextId
      BY <2>3 DEF PurgeRefresh
    <3> HIDE DEF mine
    <3>3. QED
      BY <2>1, <3>1, <3>2 DEF Purges
  <2>4. CASE UNCHANGED <<refresh, purged>>
    BY <2>1, <2>4, IdsGrow DEF Spares
  <2>5. QED
    BY <1>2, <2>2, <2>3, <2>4, TokenWriters DEF IssueAccess, SendVerification, DropAccess, PurgeAccess
<1>3. QED
  BY <1>1, <1>2

LEMMA SafeKept ==
    ASSUME TInv, NEW r \in Slots, Handler(r), NEW i \in Nat, Safe(i),
           Drops(r) /\ i # 0 => i # req[r].old.refresh
    PROVE  Safe(i)'
<1>1. CASE i = 0 \/ i \in purged
  BY <1>1, RefreshWrites DEF Safe, Issues, Drops, Purges, Spares
<1>2. CASE i # 0 /\ \E t \in refresh : t.id = i
  <2>1. PICK t \in refresh : t.id = i
    BY <1>2
  <2>2. CASE Purges
    BY <2>1, <2>2 DEF Purges, Safe
  <2>3. CASE Issues(r) \/ Drops(r) \/ Spares
    <3>1. t \in refresh'
      BY <1>2, <2>1, <2>3 DEF Issues, Drops, Spares
    <3>2. QED
      BY <2>1, <3>1 DEF Safe
  <2>4. QED
    BY <2>2, <2>3, RefreshWrites
<1>3. QED
  BY <1>1, <1>2 DEF Safe

LEMMA IssuedKept ==
    ASSUME TInv, NEW r \in Slots, Handler(r), NEW i \in Nat, i < nextId, NEW p, IssuedWith(i, p)
    PROVE  IssuedWith(i, p)'
<1>1. CASE Issues(r)
  <2>1. i # nextId
    BY SessionTypes
  <2>2. QED
    BY <1>1, <2>1 DEF Issues, IssuedWith
<1>2. CASE Drops(r) \/ Purges \/ Spares
  BY <1>2 DEF Drops, Purges, Spares, IssuedWith
<1>3. QED
  BY <1>1, <1>2, RefreshWrites

LEMMA NumberedStep ==
    ASSUME TInv, Numbered, NEW r \in Slots, Handler(r)
    PROVE  Numbered'
<1>1. nextId \in Nat /\ \A t \in refresh : t.id \in Nat
  BY SessionTypes
<1>2. CASE Issues(r)
  <2>1. nextId' = nextId + 1 /\ 1 <= nextId
    BY <1>2 DEF Issues, Numbered
  <2>2. \A t \in refresh' : t \in refresh \/ (t.id = nextId /\ t = [id |-> nextId, user |-> req[r].user, prev |-> req[r].new.access])
    BY <1>2 DEF Issues
  <2>3. \A t \in refresh : 1 <= t.id /\ t.id < nextId + 1 /\ t.id # nextId
    BY <1>1 DEF Numbered
  <2>4. \A t \in refresh' : 1 <= t.id /\ t.id < nextId + 1
    BY <1>1, <2>1, <2>2, <2>3
  <2>5. \A t, k \in refresh' : t.id = k.id => t = k
    BY <2>2, <2>3 DEF Numbered
  <2>6. 1 <= nextId + 1
    BY <1>1
  <2>7. QED
    BY <2>1, <2>4, <2>5, <2>6 DEF Numbered
<1>3. CASE refresh' \subseteq refresh /\ nextId' \in {nextId, nextId + 1}
  <2>1. 1 <= nextId' /\ \A t \in refresh : 1 <= t.id /\ t.id < nextId'
    BY <1>1, <1>3 DEF Numbered
  <2>2. QED
    BY <1>3, <2>1 DEF Numbered
<1>4. QED
  BY <1>2, <1>3, RefreshWrites DEF Drops, Purges, Spares

\* Where the tokens a request carries go.
Parks(r) ==
    /\ codes' = codes \cup {[client |-> Client(r), user |-> req[r].user, pair |-> req[r].new]}
    /\ UNCHANGED <<refresh, purged, nextId, jar, kept>>
    /\ req'[r].new.refresh = 0 /\ req[r].pc \notin {"reply", "clear"}
Delivers(r) ==
    /\ jar' = [jar EXCEPT ![Client(r)] = req[r].new]
    /\ kept' = [kept EXCEPT ![Client(r)] = kept[Client(r)] \cup {req[r].new.refresh}]
    /\ UNCHANGED <<refresh, purged, nextId, codes>>
    /\ req'[r].new.refresh = 0
Holds(r) ==
    /\ UNCHANGED <<codes, kept>>
    /\ \/ jar' = jar /\ req[r].pc \notin {"reply", "clear"}
       \/ jar' = [jar EXCEPT ![Client(r)] = NoPair]
    /\ Issues(r) \/ req'[r].new.refresh \in {0, req[r].new.refresh}

LEMMA Moves ==
    ASSUME TInv, NEW r \in Slots, Handler(r)
    PROVE  Parks(r) \/ Delivers(r) \/ Holds(r)
<1>1. Flow(r)
  BY HandlerFlow DEF TInv
<1>2. Return(r) => req'[r].new.refresh = 0
  BY ReturnFlow, IdleFields DEF TInv, Basics, TypeOK, ReqType, NoPair
<1>3. CASE StoreExchange(r)
  BY <1>2, <1>3 DEF StoreExchange, Parks, At
<1>4. CASE Reply(r)
  BY <1>2, <1>4 DEF Reply, Delivers
<1>5. CASE ~StoreExchange(r) /\ ~Reply(r)
  <2>1. codes' = codes
    BY <1>5, MailWriters DEF UndoKit, SendVerification, SpendReset, MarkVerified
  <2>2. kept' = kept /\ (jar' = jar \/ ClearJar(r))
    BY <1>5, BrowserWriters DEF ClearJar
  <2>3. req[r].pc \in {"reply", "clear"} => ClearJar(r)
    BY <1>5, IssuersOnly, FailGoes DEF IssueAccess, IssueRefresh, RejectRefresh, DropRefresh, SkipDelete, At
  <2>4. \/ jar' = jar /\ req[r].pc \notin {"reply", "clear"}
        \/ jar' = [jar EXCEPT ![Client(r)] = NoPair]
    BY <2>2, <2>3 DEF ClearJar
  <2>5. Issues(r) \/ req'[r].new.refresh \in {0, req[r].new.refresh}
    <3>1. CASE req'[r].pc = "read_back"
      BY <3>1, RefreshWrites
    <3>2. CASE req'[r].pc # "read_back"
      BY <1>1, <3>2, IdleFields DEF Flow, Follows, NoPair
    <3>3. QED
      BY <3>1, <3>2
  <2>6. QED
    BY <2>1, <2>2, <2>4, <2>5 DEF Holds, ClearJar
<1>6. QED
  BY <1>3, <1>4, <1>5

LEMMA ApartStep ==
    ASSUME TInv, SessionInv, NEW r \in Slots, Handler(r)
    PROVE  Apart'
<1>1. \A s \in Slots : s # r => req'[s] = req[s]
  BY HandlerFlow DEF TInv, Flow
<1>2. Apart /\ Client(r) \in Clients /\ kept \in [Clients -> SUBSET Nat]
  BY SessionTypes DEF SessionInv, TInv, Basics, TypeOK
<1>3. /\ \A s \in Slots : req[s].new.refresh # nextId
      /\ \A c \in Clients : nextId \notin kept[c]
      /\ \A k \in codes : k.pair.refresh # nextId
  <2>1. \A i \in Nat : i < nextId => i # nextId
    BY SessionTypes
  <2>2. QED
    BY <2>1, SessionTypes DEF SessionInv, Session, Cookies, Parked
<1>4. CASE Parks(r)
  <2>1. /\ \A s \in Slots : s # r => req'[s].new.refresh = req[s].new.refresh
        /\ req'[r].new.refresh = 0 /\ kept' = kept
        /\ \A k \in codes' : k \in codes \/ (k.pair.refresh = req[r].new.refresh
                                             /\ k = [client |-> Client(r), user |-> req[r].user, pair |-> req[r].new])
    BY <1>1, <1>4 DEF Parks
  <2>2. OneRequest'
    BY <1>2, <2>1 DEF Apart, OneRequest
  <2>3. OneCode'
    BY <1>2, <2>1 DEF Apart, OneCode, Unsent
  <2>4. OneKeeper'
    BY <1>2, <2>1 DEF Apart, OneKeeper
  <2>5. Unsent'
    BY <1>2, <2>1 DEF Apart, OneRequest, Unsent
  <2>6. QED
    BY <2>2, <2>3, <2>4, <2>5 DEF Apart
<1>5. CASE Delivers(r)
  <2>1. /\ \A s \in Slots : s # r => req'[s].new.refresh = req[s].new.refresh
        /\ req'[r].new.refresh = 0 /\ codes' = codes
        /\ \A c \in Clients : \A i \in kept'[c] : i \in kept[c] \/ (c = Client(r) /\ i = req[r].new.refresh)
    BY <1>1, <1>2, <1>5 DEF Delivers
  <2>2. OneRequest'
    BY <1>2, <2>1 DEF Apart, OneRequest
  <2>3. OneCode'
    BY <1>2, <2>1 DEF Apart, OneCode
  <2>4. OneKeeper'
    BY <1>2, <2>1 DEF Apart, OneKeeper, Unsent
  <2>5. Unsent'
    BY <1>2, <2>1 DEF Apart, OneRequest, Unsent
  <2>6. QED
    BY <2>2, <2>3, <2>4, <2>5 DEF Apart
<1>6. CASE Holds(r)
  <2>1. /\ \A s \in Slots : s # r => req'[s].new.refresh = req[s].new.refresh
        /\ req'[r].new.refresh \in {0, req[r].new.refresh, nextId}
        /\ kept' = kept /\ codes' = codes
    BY <1>1, <1>6 DEF Holds, Issues
  <2>2. OneRequest'
    BY <1>2, <1>3, <2>1 DEF Apart, OneRequest
  <2>3. OneCode' /\ OneKeeper'
    BY <1>2, <2>1 DEF Apart, OneCode, OneKeeper
  <2>4. Unsent'
    BY <1>2, <1>3, <2>1 DEF Apart, Unsent
  <2>5. QED
    BY <2>2, <2>3, <2>4 DEF Apart
<1>7. QED
  BY <1>4, <1>5, <1>6, Moves

\* What a step of r does to the cookies of the browser c.
LEMMA JarMoves ==
    ASSUME TInv, SessionInv, NEW r \in Slots, Handler(r), NEW c \in Clients
    PROVE  /\ kept[c] \subseteq kept'[c]
           /\ \A i \in kept'[c] : i \in kept[c] \/ i = req[r].new.refresh
           /\ \/ jar'[c] = jar[c] /\ (Client(r) = c => req[r].pc \notin {"reply", "clear"})
              \/ jar'[c] = NoPair
              \/ /\ jar'[c] = req[r].new /\ req[r].new.refresh \in kept'[c] /\ c = Client(r)
                 /\ refresh' = refresh
<1>1. jar \in [Clients -> Pair] /\ kept \in [Clients -> SUBSET Nat] /\ Client(r) \in Clients
  BY SessionTypes DEF TInv, Basics, TypeOK
<1>2. CASE Parks(r)
  BY <1>2 DEF Parks
<1>3. CASE Delivers(r)
  <2>1. CASE c = Client(r)
    BY <1>1, <1>3, <2>1 DEF Delivers
  <2>2. CASE c # Client(r)
    BY <1>1, <1>3, <2>2 DEF Delivers
  <2>3. QED
    BY <2>1, <2>2
<1>4. CASE Holds(r)
  <2>1. kept' = kept
    BY <1>4 DEF Holds
  <2>2. CASE jar' = jar /\ req[r].pc \notin {"reply", "clear"}
    BY <2>1, <2>2
  <2>3. CASE jar' = [jar EXCEPT ![Client(r)] = NoPair]
    <3>1. CASE c = Client(r)
      BY <1>1, <2>1, <2>3, <3>1
    <3>2. CASE c # Client(r)
      BY <1>1, <2>1, <2>3, <3>2
    <3>3. QED
      BY <3>1, <3>2
  <2>4. QED
    BY <1>4, <2>2, <2>3 DEF Holds
<1>5. QED
  BY <1>2, <1>3, <1>4, Moves

\* No stored token has the id 0, so nothing is asked of it.
LEMMA NothingIssued == ASSUME Numbered', NEW p PROVE IssuedWith(0, p)'
BY DEF Numbered, IssuedWith

\* What a request is about to give its browser is not what another one drops.
LEMMA NewSafe ==
    ASSUME TInv, SessionInv, NEW r \in Slots, Handler(r), NEW i \in Nat, Safe(i),
           \A c \in Clients : i \in kept[c] => i = 0
    PROVE  Safe(i)'
<1>1. req[r].old.refresh \in kept[Client(r)] \cup {0} /\ Client(r) \in Clients
  BY SessionTypes DEF SessionInv, Session
<1>2. i # 0 => i # req[r].old.refresh
  BY <1>1
<1>3. QED
  BY <1>2, SafeKept

LEMMA OthersSession ==
    ASSUME TInv, SessionInv, NEW r \in Slots, Handler(r), Numbered', NEW s \in Slots, s # r
    PROVE  Session(s)'
<1>1. /\ req'[s] = req[s] /\ Session(s) /\ Client(s) \in Clients /\ Apart
      /\ nextId \in Nat /\ nextId' \in {nextId, nextId + 1}
  BY HandlerFlow, IdsGrow, SessionTypes DEF TInv, Flow, SessionInv
<1>2. PICK c \in Clients : c = Client(s)
  BY <1>1
<1>3. PICK i \in Nat, p \in Nat : i = req[s].new.refresh /\ p = req[s].new.access
  BY SessionTypes
<1>4. PICK j \in Nat, o \in Nat : j = req[s].old.refresh /\ o = req[s].old.access
  BY SessionTypes
<1>5. i < nextId /\ i < nextId' /\ (j # 0 => j < nextId) /\ j \in kept[c] \cup {0}
  <2>1. i < nextId /\ j \in kept[c] \cup {0}
    BY <1>1, <1>2, <1>3, <1>4 DEF Session
  <2>2. j # 0 => j < nextId
    BY <2>1 DEF SessionInv, Cookies
  <2>3. i < nextId'
    BY <1>1, <2>1
  <2>4. QED
    BY <2>1, <2>2, <2>3
<1>6. Safe(i)'
  BY <1>1, <1>3, NewSafe DEF Session, Apart, Unsent
<1>7. IssuedWith(i, p)'
  BY <1>1, <1>3, <1>5, IssuedKept DEF Session
<1>8. \A q : IssuedWith(0, q)'
  BY NothingIssued
\* The browser now has the token of r, which no other request had kept.
<1>9. jar'[c].refresh = j => j = 0 \/ jar'[c] = jar[c]
  <2>1. req[r].new.refresh \in kept[c] => req[r].new.refresh = 0
    BY <1>1 DEF Apart, Unsent
  <2>2. QED
    BY <1>5, <2>1, JarMoves DEF NoPair
<1>10. req[s].pc = "match" /\ jar'[c].refresh = j => IssuedWith(j, o)'
  <2> SUFFICES ASSUME req[s].pc = "match", jar'[c].refresh = j, j # 0 PROVE IssuedWith(j, o)'
    BY <1>8
  <2>1. jar[c].refresh = j
    BY <1>9
  <2>2. IssuedWith(j, o)
    BY <1>1, <1>2, <1>4, <2>1 DEF Session
  <2>3. QED
    BY <1>5, <2>2, IssuedKept
<1>11. req[s].pc = "reject" => j # 0 /\ jar'[c].refresh # j
  BY <1>1, <1>2, <1>4, <1>9 DEF Session
<1>12. j \in kept'[c] \cup {0}
  BY <1>5, JarMoves
<1>13. Client(s)' = Client(s)
  BY DEF Client
<1>14. QED
  BY <1>1, <1>2, <1>3, <1>4, <1>5, <1>6, <1>7, <1>10, <1>11, <1>12, <1>13 DEF Session, Safe, IssuedWith

LEMMA OwnSession ==
    ASSUME TInv, SessionInv, NEW r \in Slots, Handler(r), Numbered'
    PROVE  Session(r)'
<1>1. /\ Flow(r) /\ Session(r) /\ Client(r) \in Clients /\ Apart
      /\ nextId \in Nat /\ nextId' \in {nextId, nextId + 1}
  BY HandlerFlow, IdsGrow, SessionTypes DEF TInv, SessionInv
<1>2. PICK c \in Clients : c = Client(r)
  BY <1>1
<1>3. PICK i \in Nat, p \in Nat : i = req[r].new.refresh /\ p = req[r].new.access
  BY SessionTypes
<1>4. req'[r].old.refresh \in kept'[c] \cup {0}
  <2>1. req'[r].old = req[r].old \/ req'[r].old = NoPair
    BY <1>1, IdleFields DEF Flow, Follows
  <2>2. req[r].old.refresh \in kept[c] \cup {0}
    BY <1>1, <1>2 DEF Session
  <2>3. QED
    BY <2>1, <2>2, JarMoves DEF NoPair
<1>5. 0 < nextId' /\ i < nextId'
  <2>1. 1 <= nextId'
    BY DEF Numbered
  <2>2. i < nextId
    BY <1>1, <1>3 DEF Session
  <2>3. QED
    BY <1>1, <2>1, <2>2
<1>6. /\ Safe(req[r].new.refresh)' /\ req'[r].new.refresh < nextId'
      /\ IssuedWith(req[r].new.refresh, req[r].new.access)'
  <2>1. CASE Issues(r)
    <3>1. PICK n \in Nat : n = nextId
      BY <1>1
    <3>2. /\ refresh' = refresh \cup {[id |-> n, user |-> req[r].user, prev |-> p]}
          /\ req'[r].new.refresh = n /\ req'[r].new.access = p /\ nextId' = n + 1
      BY <1>3, <2>1, <3>1 DEF Issues
    <3>3. \A t \in refresh : t.id # n
      BY <3>1, SessionTypes DEF SessionInv, Numbered
    <3>4. \A t \in refresh' : t.id = n => t.prev = p
      BY <3>2, <3>3
    <3>5. \E t \in refresh' : t.id = n
      <4>1. [id |-> n, user |-> req[r].user, prev |-> p] \in refresh'
        BY <3>2
      <4>2. [id |-> n, user |-> req[r].user, prev |-> p].id = n
        OBVIOUS
      <4>3. QED
        BY <4>1, <4>2
    <3>6. n < nextId'
      BY <3>2
    <3>7. QED
      BY <3>2, <3>4, <3>5, <3>6 DEF Safe, IssuedWith
  <2>2. CASE req'[r].new.refresh = 0
    <3>1. \A q : IssuedWith(0, q)'
      BY NothingIssued
    <3>2. Safe(0)'
      BY DEF Safe
    <3>3. QED
      BY <1>5, <2>2, <3>1, <3>2 DEF Safe, IssuedWith
  <2>3. CASE req'[r].new.refresh = i /\ i # 0
    <3>1. Safe(i)'
      BY <1>1, <1>3, NewSafe DEF Session, Apart, Unsent
    <3>2. IssuedWith(i, p)'
      BY <1>1, <1>3, IssuedKept DEF Session
    <3>3. req[r].pc # "access"
      BY <1>1, <1>3, <2>3 DEF Session, Early
    <3>4. req'[r].pc # "refresh" /\ req'[r] # Idle
      BY <2>3, <3>3, IssuedWhere, IdleFields DEF NoPair
    <3>5. req'[r].new.access = p
      BY <1>1, <1>3, <3>4 DEF Flow, Follows
    <3>6. QED
      BY <1>5, <2>3, <3>1, <3>2, <3>5 DEF Safe, IssuedWith
  <2>4. QED
    BY <1>3, <2>1, <2>2, <2>3, Moves DEF Parks, Delivers, Holds
<1>7. req'[r].pc \in Early => req'[r].new.refresh = 0
  <2> SUFFICES ASSUME req'[r].pc \in Early PROVE req'[r].new.refresh = 0
    OBVIOUS
  <2>1. req[r].pc \in Early /\ req'[r].pc # "read_back" /\ req'[r].new.refresh = req[r].new.refresh
    BY <1>1, IdleFields DEF Flow, Follows, Edge, Early
  <2>2. QED
    BY <1>1, <2>1 DEF Session
<1>8. req'[r].pc # "match"
  BY <1>1, IdleFields DEF Flow, Follows, Edge
<1>9. req'[r].pc = "reject" => req'[r].old.refresh # 0 /\ jar'[c].refresh # req'[r].old.refresh
  <2> SUFFICES ASSUME req'[r].pc = "reject" PROVE req'[r].old.refresh # 0 /\ jar'[c].refresh # req'[r].old.refresh
    OBVIOUS
  <2>1. MatchSession(r) /\ req[r].pc = "match"
    BY IssuedWhere DEF MatchSession, At
  <2>2. PICK t \in refresh : t.id = req[r].old.refresh /\ t.prev # req[r].old.access
    BY <2>1, MatchSessionFlow DEF TInv
  <2>3. jar[c].refresh # req[r].old.refresh
    BY <1>1, <1>2, <2>1, <2>2 DEF Session, IssuedWith
  <2>4. req[r].old.refresh # 0
    BY <2>2 DEF SessionInv, Numbered
  <2>5. jar' = jar
    BY <2>1 DEF MatchSession
  <2>6. req'[r].old = req[r].old
    BY <1>1, IdleFields DEF Flow, Follows
  <2>7. QED
    BY <2>3, <2>4, <2>5, <2>6
<1>10. Client(r)' = Client(r)
  BY DEF Client
<1>11. QED
  BY <1>2, <1>4, <1>6, <1>7, <1>8, <1>9, <1>10 DEF Session

LEMMA CookiesStep ==
    ASSUME TInv, SessionInv, NEW r \in Slots, Handler(r), Numbered', NEW c \in Clients
    PROVE  Cookies(c)'
<1>1. /\ Flow(r) /\ Session(r) /\ Client(r) \in Clients /\ Apart /\ Cookies(c)
      /\ nextId \in Nat /\ nextId' \in {nextId, nextId + 1} /\ torn' = torn
  BY HandlerFlow, IdsGrow, SessionTypes, CounterWriters DEF TInv, SessionInv
<1>2. /\ kept[c] \subseteq kept'[c] /\ kept[c] \subseteq Nat
      /\ \A i \in kept'[c] : i \in kept[c] \/ i = req[r].new.refresh
  BY JarMoves, SessionTypes
<1>3. \A i \in kept'[c] : i < nextId'
  <2> SUFFICES ASSUME NEW i \in kept'[c] PROVE i < nextId'
    OBVIOUS
  <2>1. i < nextId /\ i \in Nat
    BY <1>1, <1>2, SessionTypes DEF Session, Cookies
  <2>2. QED
    BY <1>1, <2>1
<1>4. PICK j \in Nat, p \in Nat : j = jar[c].refresh /\ p = jar[c].access
  BY SessionTypes
<1>5. j \in kept[c] \cup {0}
  BY <1>1, <1>4 DEF Cookies
<1>6. CASE jar'[c] = NoPair
  <2>1. jar'[c].refresh = 0 /\ jar'[c].access = 0
    BY <1>6 DEF NoPair
  <2>2. QED
    BY <1>3, <2>1 DEF Cookies, Safe
<1>7. CASE /\ jar'[c] = req[r].new /\ req[r].new.refresh \in kept'[c] /\ refresh' = refresh
  <2>1. purged \subseteq purged'
    BY RefreshWrites DEF Issues, Drops, Purges, Spares
  <2>2. Safe(req[r].new.refresh) /\ IssuedWith(req[r].new.refresh, req[r].new.access)
    BY <1>1 DEF Session
  <2>3. QED
    BY <1>3, <1>7, <2>1, <2>2 DEF Cookies, Safe, IssuedWith
<1>8. CASE jar'[c] = jar[c] /\ (Client(r) = c => req[r].pc \notin {"reply", "clear"})
  <2>1. p # 0 => IssuedWith(j, p)'
    <3> SUFFICES ASSUME p # 0, j # 0 PROVE IssuedWith(j, p)'
      BY NothingIssued
    <3>1. j < nextId
      BY <1>1, <1>5 DEF Cookies
    <3>2. IssuedWith(j, p)
      BY <1>1, <1>4 DEF Cookies
    <3>3. QED
      BY <3>1, <3>2, IssuedKept
  <2>2. \/ Safe(j)' \/ c \in torn'
        \/ \E s \in Slots : Client(s) = c /\ req'[s].pc \in {"reply", "clear"}
    <3>1. CASE c \in torn
      BY <1>1, <3>1
    <3>2. CASE \E s \in Slots : Client(s) = c /\ req[s].pc \in {"reply", "clear"}
      BY <1>1, <1>8, <3>2 DEF Flow
    <3>3. CASE Safe(j)
      <4>1. CASE ~Drops(r) \/ j = 0 \/ j # req[r].old.refresh
        BY <3>3, <4>1, SafeKept
      <4>2. CASE Drops(r) /\ j # 0 /\ j = req[r].old.refresh
        <5>1. j \in kept[c] /\ j \in kept[Client(r)]
          BY <1>1, <1>5, <4>2 DEF Session
        <5>2. Client(r) = c
          BY <1>1, <4>2, <5>1 DEF Apart, OneKeeper
        <5>3. req[r].pc = "drop_refresh"
          BY <1>1, <1>4, <4>2, <5>2 DEF Drops, Session
        <5>4. req'[r].pc \in {"reply", "clear"}
          <6>1. DropRefresh(r) \/ SkipDelete(r)
            BY <5>3, IssuersOnly, FailGoes DEF IssueAccess, IssueRefresh, Reply, ClearJar, RejectRefresh, At
          <6>2. CASE DropRefresh(r)
            <7>1. PICK l \in {"reply", "clear"} : Goto(r, l) /\ (req[r].handler = "logout" <=> l = "clear")
              BY <6>2 DEF DropRefresh
            <7>2. Edge(req[r], l)
              BY <5>3, <7>1 DEF Edge
            <7>3. QED
              BY <7>1, <7>2, GotoFlow DEF TInv, Basics, TypeOK, ReqType, Labels
          <6>3. CASE SkipDelete(r)
            <7>1. Goto(r, "clear") /\ Edge(req[r], "clear")
              BY <5>3, <6>3 DEF SkipDelete, At, Edge
            <7>2. QED
              BY <7>1, GotoFlow DEF TInv, Basics, TypeOK, ReqType, Labels
          <6>4. QED
            BY <6>1, <6>2, <6>3
        <5>5. QED
          BY <5>2, <5>4
      <4>3. QED
        BY <4>1, <4>2
    <3>4. QED
      BY <1>1, <1>4, <3>1, <3>2, <3>3 DEF Cookies
  <2>3. j \in kept'[c] \cup {0}
    BY <1>2, <1>5
  <2>4. \A s \in Slots : Client(s)' = Client(s)
    BY DEF Client
  <2>5. QED
    BY <1>3, <1>4, <1>8, <2>1, <2>2, <2>3, <2>4 DEF Cookies, Safe, IssuedWith
<1>9. QED
  BY <1>6, <1>7, <1>8, JarMoves

LEMMA ParkedStep ==
    ASSUME TInv, SessionInv, NEW r \in Slots, Handler(r)
    PROVE  \A k \in codes' : Parked(k)'
<1>1. nextId \in Nat /\ nextId' \in {nextId, nextId + 1} /\ Session(r) /\ Apart
  BY IdsGrow, SessionTypes DEF SessionInv
<1>2. \A k \in codes : Parked(k)'
  <2> SUFFICES ASSUME NEW k \in codes PROVE Parked(k)'
    OBVIOUS
  <2>1. PICK i \in Nat, p \in Nat : i = k.pair.refresh /\ p = k.pair.access
    BY SessionTypes
  <2>2. Safe(i) /\ i < nextId /\ IssuedWith(i, p)
    BY <2>1 DEF SessionInv, Parked
  <2>3. Safe(i)'
    BY <1>1, <2>1, <2>2, NewSafe DEF Apart, Unsent
  <2>4. IssuedWith(i, p)' /\ i < nextId'
    BY <1>1, <2>2, IssuedKept
  <2>5. QED
    BY <2>1, <2>3, <2>4 DEF Parked, Safe, IssuedWith
<1>3. CASE codes' = codes
  BY <1>2, <1>3
<1>4. CASE Parks(r)
  <2>1. UNCHANGED <<refresh, purged, nextId>>
    BY <1>4 DEF Parks
  <2>2. \A k \in codes' : k \in codes \/ k.pair = req[r].new
    BY <1>4 DEF Parks
  <2>3. \A k \in codes' : Parked(k)
    BY <1>1, <2>2 DEF SessionInv, Parked, Session
  <2>4. QED
    BY <2>1, <2>3 DEF Parked, Safe, IssuedWith
<1>5. QED
  BY <1>3, <1>4, Moves DEF Delivers, Holds

LEMMA SessionHandler == ASSUME TInv, SessionInv, NEW r \in Slots, Handler(r) PROVE SessionInv'
<1>1. Numbered'
  BY NumberedStep DEF SessionInv
<1>2. \A s \in Slots : Session(s)'
  BY <1>1, OwnSession, OthersSession
<1>3. \A c \in Clients : Cookies(c)'
  BY <1>1, CookiesStep
<1>4. QED
  BY <1>1, <1>2, <1>3, ApartStep, ParkedStep DEF SessionInv

LEMMA SessionInit == Init => SessionInv
<1> SUFFICES ASSUME Init PROVE SessionInv
  OBVIOUS
<1>1. refresh = {} /\ nextId = 1 /\ codes = {} /\ \A r \in Slots : req[r] = Idle
  BY DEF Init
<1>2. \A c \in Clients : jar[c] = NoPair /\ kept[c] = {}
  BY DEF Init
<1>3. NoPair.access = 0 /\ NoPair.refresh = 0
  BY DEF NoPair
<1>4. Numbered /\ Apart
  BY <1>1, <1>2, <1>3, IdleFields DEF Numbered, Apart, OneRequest, OneCode, OneKeeper, Unsent
<1>5. \A r \in Slots : Session(r)
  <2> SUFFICES ASSUME NEW r \in Slots PROVE Session(r)
    OBVIOUS
  <2>1. /\ req[r].old.refresh = 0 /\ req[r].new.refresh = 0 /\ req[r].pc = "idle"
    BY <1>1, <1>3, IdleFields
  <2>2. 0 < nextId
    BY <1>1
  <2>3. QED
    BY <1>1, <2>1, <2>2 DEF Session, Safe, IssuedWith
<1>6. \A c \in Clients : Cookies(c)
  BY <1>1, <1>2, <1>3 DEF Cookies, Safe
<1>7. QED
  BY <1>1, <1>4, <1>5, <1>6 DEF SessionInv

\* A step that touches no refresh token and no kept cookie, and of the slots
\* only r.
LEMMA QuietSession ==
    ASSUME TInv, SessionInv, NEW r \in Slots, UNCHANGED <<refresh, purged, nextId, kept, jar>>,
           \A s \in Slots : s # r => req'[s] = req[s], torn \subseteq torn',
           Apart', Session(r)', \A k \in codes' : Parked(k)',
           req[r].pc \notin {"reply", "clear"} \/ Client(r) \in torn'
    PROVE  SessionInv'
<1>1. Numbered'
  BY DEF SessionInv, Numbered
<1>2. \A s \in Slots : Session(s)'
  <2> SUFFICES ASSUME NEW s \in Slots, s # r PROVE Session(s)'
    OBVIOUS
  <2>1. Session(s) /\ req'[s] = req[s]
    BY DEF SessionInv
  <2>2. QED
    BY <2>1 DEF Session, Safe, IssuedWith, Client
<1>3. \A c \in Clients : Cookies(c)'
  <2> SUFFICES ASSUME NEW c \in Clients PROVE Cookies(c)'
    OBVIOUS
  <2>1. Cookies(c)
    BY DEF SessionInv
  <2>2. \/ Safe(jar[c].refresh) \/ c \in torn'
        \/ \E s \in Slots : Client(s) = c /\ req'[s].pc \in {"reply", "clear"}
    BY <2>1 DEF Cookies
  <2>3. QED
    BY <2>1, <2>2 DEF Cookies, Safe, IssuedWith, Client
<1>4. QED
  BY <1>1, <1>2, <1>3 DEF SessionInv

LEMMA SessionCall == ASSUME TInv, SessionInv, NEW r \in Slots, Call(r) PROVE SessionInv'
<1>1. /\ Opened(r) /\ UNCHANGED <<refresh, purged, nextId, kept, jar, torn>>
      /\ codes' = codes \/ ExchangeBegin(r)
  BY CallOpens, CallWrites DEF TInv, ConsumeState
<1>2. PICK c \in Clients : c = Client(r)
  BY SessionTypes
<1>3. /\ Apart /\ Numbered /\ Cookies(c) /\ NoPair.access = 0 /\ NoPair.refresh = 0
      /\ 0 < nextId /\ nextId \in Nat
  <2>1. nextId \in Nat /\ 1 <= nextId
    BY SessionTypes DEF SessionInv, Numbered
  <2>2. QED
    BY <2>1 DEF SessionInv, NoPair
<1>4. req'[r].pc \in Early => req'[r].new = NoPair
  BY <1>1 DEF Opened, Opens, Early
\* What the browser sends along.
<1>5. /\ req'[r].old.refresh \in kept[c] \cup {0}
      /\ req'[r].pc = "match" /\ jar[c].refresh = req'[r].old.refresh =>
            IssuedWith(jar[c].refresh, req[r].old.access)'
  <2>1. CASE RefreshBegin(r)
    <3>1. PICK t \in refresh : /\ t.id = jar[c].refresh
                               /\ req'[r].old.access = IF jar[c].access # 0 THEN jar[c].access ELSE t.prev
      BY <1>2, <2>1, RefreshOpens DEF TInv, RefreshToken
    <3>2. req'[r].old.refresh \in kept[c]
      BY <1>2, <2>1, RefreshOpens DEF TInv
    <3>3. \A k \in refresh : k.id = jar[c].refresh => k = t
      BY <1>3, <3>1 DEF Numbered
    <3>4. t.prev = req'[r].old.access
      BY <1>3, <3>1 DEF Cookies, IssuedWith
    <3>5. \A k \in refresh : k.id = jar[c].refresh => k.prev = req'[r].old.access
      BY <3>3, <3>4
    <3>6. QED
      BY <1>1, <3>2, <3>5 DEF IssuedWith
  <2>2. CASE LogoutBegin(r)
    <3>1. req'[r].old = jar[c] /\ req'[r].pc = "drop_access"
      BY <1>2, <2>2, LogoutOpens DEF TInv
    <3>2. QED
      BY <1>3, <3>1 DEF Cookies
  <2>3. CASE ~RefreshBegin(r) /\ ~LogoutBegin(r)
    <3>1. req'[r].pc \notin {"match", "drop_access"}
      BY <2>3, SignupOpens, GuestOpens, CallbackOpens, ExchangeOpens, LoginOpens, ConfirmOpens,
         UpgradeOpens, VerifyOpens, ResendOpens, RenameOpens, RemoveOpens DEF Call, TInv
    <3>2. req'[r].old = NoPair
      BY <1>1, <3>1 DEF Opened, Opens
    <3>3. QED
      BY <1>3, <3>1, <3>2
  <2>4. QED
    BY <2>1, <2>2, <2>3
<1>6. req'[r].pc # "reject" /\ req[r].pc \notin {"reply", "clear"}
  BY <1>1 DEF Opened, Opens
<1>7. Client(r)' = Client(r)
  BY DEF Client
<1>8. CASE ~ExchangeBegin(r)
  <2>1. codes' = codes /\ req'[r].new = NoPair
    <3>1. req'[r].pc # "pick_up"
      BY <1>8, SignupOpens, GuestOpens, CallbackOpens, RefreshOpens, LogoutOpens, LoginOpens, ConfirmOpens,
         UpgradeOpens, VerifyOpens, ResendOpens, RenameOpens, RemoveOpens DEF Call, TInv
    <3>2. QED
      BY <1>1, <1>8, <3>1 DEF Opened, Opens
  <2>2. \A s \in Slots : req'[s].new.refresh \in {0, req[s].new.refresh}
    BY <1>1, <1>3, <2>1 DEF Opened
  <2>3. Apart'
    <3>1. OneRequest'
      BY <1>1, <1>3, <2>1 DEF Apart, OneRequest, Opened
    <3>2. OneCode' /\ OneKeeper'
      BY <1>1, <1>3, <2>1 DEF Apart, OneCode, OneKeeper
    <3>3. Unsent'
      BY <1>1, <1>3, <2>1, <2>2 DEF Apart, Unsent
    <3>4. QED
      BY <3>1, <3>2, <3>3 DEF Apart
  <2>4. Session(r)'
    <3>1. Safe(0)' /\ IssuedWith(0, 0)'
      BY <1>1, <1>3 DEF Safe, IssuedWith, Numbered
    <3>2. req'[r].new.refresh = 0 /\ req'[r].new.access = 0
      BY <1>3, <2>1
    <3>3. QED
      BY <1>1, <1>2, <1>3, <1>5, <1>6, <1>7, <3>1, <3>2 DEF Session, Safe, IssuedWith
  <2>5. \A k \in codes' : Parked(k)'
    BY <1>1, <2>1 DEF SessionInv, Parked, Safe, IssuedWith
  <2>6. QED
    BY <1>1, <1>6, <2>3, <2>4, <2>5, QuietSession DEF Opened
<1>9. CASE ExchangeBegin(r)
  <2>1. PICK k \in codes : codes' = codes \ {k} /\ req'[r].new = k.pair
    BY <1>9, ExchangeOpens DEF TInv
  <2>2. Parked(k) /\ req'[r].pc = "pick_up"
    BY <1>9, ExchangeOpens DEF TInv, SessionInv
  <2>3. \A s \in Slots : s # r => req'[s].new.refresh = req[s].new.refresh
    BY <1>1 DEF Opened
  <2>4. Apart'
    <3>1. OneRequest'
      BY <1>3, <2>1, <2>3 DEF Apart, OneRequest, Unsent
    <3>2. OneCode' /\ OneKeeper'
      BY <1>1, <1>3, <2>1 DEF Apart, OneCode, OneKeeper
    <3>3. Unsent'
      BY <1>1, <1>3, <2>1, <2>3 DEF Apart, Unsent, OneCode
    <3>4. QED
      BY <3>1, <3>2, <3>3 DEF Apart
  <2>5. Session(r)'
    <3>1. Safe(k.pair.refresh) /\ k.pair.refresh < nextId /\ IssuedWith(k.pair.refresh, k.pair.access)
      BY <2>2 DEF Parked
    <3>2. req'[r].pc \notin Early
      BY <2>2 DEF Early
    <3>3. QED
      BY <1>1, <1>2, <1>5, <1>6, <1>7, <2>1, <2>2, <3>1, <3>2 DEF Session, Safe, IssuedWith
  <2>6. \A l \in codes' : Parked(l)'
    BY <1>1, <2>1 DEF SessionInv, Parked, Safe, IssuedWith
  <2>7. QED
    BY <1>1, <1>6, <2>4, <2>5, <2>6, QuietSession DEF Opened
<1>10. QED
  BY <1>8, <1>9

LEMMA SessionKill == ASSUME TInv, SessionInv, NEW r \in Slots, Kill(r) PROVE SessionInv'
<1>1. /\ Flow(r) /\ req'[r] = Idle /\ UNCHANGED <<refresh, purged, nextId, kept, jar, codes>>
      /\ torn' = torn \cup {Client(r)}
  BY ReturnFlow DEF Kill, TInv, Basics, TypeOK, ReqType
<1>2. NoPair.refresh = 0 /\ NoPair.access = 0 /\ Apart /\ Numbered
  BY DEF NoPair, SessionInv
<1>3. Apart'
  <2>1. \A s \in Slots : s # r => req'[s].new.refresh = req[s].new.refresh
    BY <1>1 DEF Flow
  <2>2. req'[r].new.refresh = 0
    BY <1>1, <1>2, IdleFields
  <2>3. OneRequest' /\ OneCode' /\ OneKeeper' /\ Unsent'
    BY <1>1, <1>2, <2>1, <2>2 DEF Apart, OneRequest, OneCode, OneKeeper, Unsent
  <2>4. QED
    BY <2>3 DEF Apart
<1>4. Session(r)'
  <2>1. 0 < nextId' /\ IssuedWith(0, 0)' /\ Safe(0)'
    BY <1>1, <1>2, SessionTypes DEF Numbered, IssuedWith, Safe
  <2>2. QED
    BY <1>1, <1>2, <2>1, IdleFields DEF Session, Safe, IssuedWith, Early
<1>5. \A k \in codes' : Parked(k)'
  BY <1>1 DEF SessionInv, Parked, Safe, IssuedWith
<1>6. QED
  BY <1>1, <1>3, <1>4, <1>5, QuietSession DEF Flow

LEMMA SessionAside == ASSUME TInv, SessionInv, Aside \/ UNCHANGED vars PROVE SessionInv'
<1>1. /\ UNCHANGED <<refresh, purged, kept, req, codes, torn>> /\ nextId' \in {nextId, nextId + 1}
      /\ \/ jar' = jar
         \/ \E c \in Clients : jar' = [jar EXCEPT ![c].access = 0]
  BY AsideWrites
<1>2. nextId \in Nat /\ nextId' \in Nat /\ \A i \in Nat : i < nextId => i < nextId'
  BY <1>1, SessionTypes
<1>3. \A c \in Clients : /\ jar'[c].refresh = jar[c].refresh
                         /\ jar'[c].access \in {0, jar[c].access}
  <2> SUFFICES ASSUME NEW c \in Clients
               PROVE  jar'[c].refresh = jar[c].refresh /\ jar'[c].access \in {0, jar[c].access}
    OBVIOUS
  <2>1. jar \in [Clients -> Pair] /\ jar[c] \in Pair
    BY DEF TInv, Basics, TypeOK
  <2>2. CASE jar' = jar
    BY <2>2
  <2>3. ASSUME NEW d \in Clients, jar' = [jar EXCEPT ![d].access = 0]
        PROVE  jar'[c].refresh = jar[c].refresh /\ jar'[c].access \in {0, jar[c].access}
    BY <2>1, <2>3 DEF Pair
  <2>4. QED
    BY <1>1, <2>2, <2>3
<1>4. Numbered'
  <2>1. 1 <= nextId' /\ \A t \in refresh : 1 <= t.id /\ t.id < nextId'
    BY <1>1, <1>2, SessionTypes DEF SessionInv, Numbered
  <2>2. QED
    BY <1>1, <2>1 DEF SessionInv, Numbered
<1>5. Apart'
  BY <1>1 DEF SessionInv, Apart, OneRequest, OneCode, OneKeeper, Unsent
<1>6. \A r \in Slots : Session(r)'
  <2> SUFFICES ASSUME NEW r \in Slots PROVE Session(r)'
    OBVIOUS
  <2>1. Session(r) /\ Client(r) \in Clients /\ req[r].new.refresh < nextId'
    BY <1>2, SessionTypes DEF SessionInv, Session
  <2>2. QED
    BY <1>1, <1>3, <2>1 DEF Session, Safe, IssuedWith, Client
<1>7. \A c \in Clients : Cookies(c)'
  <2> SUFFICES ASSUME NEW c \in Clients PROVE Cookies(c)'
    OBVIOUS
  <2>1. Cookies(c) /\ \A i \in kept[c] : i < nextId'
    BY <1>2, SessionTypes DEF SessionInv, Cookies
  <2>2. QED
    BY <1>1, <1>3, <2>1 DEF Cookies, Safe, IssuedWith, Client
<1>8. \A k \in codes' : Parked(k)'
  <2> SUFFICES ASSUME NEW k \in codes PROVE Parked(k)'
    BY <1>1
  <2>1. Parked(k) /\ k.pair.refresh < nextId'
    BY <1>2, SessionTypes DEF SessionInv, Parked
  <2>2. QED
    BY <1>1, <2>1 DEF Parked, Safe, IssuedWith
<1>9. QED
  BY <1>4, <1>5, <1>6, <1>7, <1>8 DEF SessionInv

LEMMA SessionNext == TInv /\ SessionInv /\ [Next]_vars => SessionInv'
BY NextCases, SessionHandler, SessionCall, SessionKill, SessionAside

\* A browser never loses its session by using it: whatever its tabs cross, and
\* whatever other browsers do, once they are through the refresh cookie names
\* a stored token, unless all sessions of the user were ended or a request of
\* the browser was killed.
THEOREM AccountsSessionSurvives == Spec => []SessionSurvives
<1>1. SessionInv => SessionSurvives
  <2> SUFFICES ASSUME SessionInv, NEW c \in Clients, \A r \in Slots : Client(r) = c => At(r, "idle"), c \notin torn
               PROVE  jar[c].refresh = 0 \/ jar[c].refresh \in purged \/ \E k \in refresh : k.id = jar[c].refresh
    BY DEF SessionSurvives
  <2>1. Cookies(c)
    BY DEF SessionInv
  <2>2. ~\E r \in Slots : Client(r) = c /\ req[r].pc \in {"reply", "clear"}
    BY DEF At
  <2>3. QED
    BY <2>1, <2>2 DEF Cookies, Safe
<1>2. QED
  BY <1>1, TInvAlways, SessionInit, SessionNext, PTL DEF Spec

(***************************************************************************)
(* Who owns an address or a username.                                      *)
(***************************************************************************)
\* Two requests hold the same value only if it is contested, an account that
\* has what a request for another one holds has it contested, and whoever is
\* about to make an account has none yet.
RivalsOnRecord == \A r, s \in Slots :
    r # s /\ Rivals(req[r], req[s]) => Held(req[r]) \cap Held(req[s]) \subseteq contested

HoldsFree(q) == \A u \in Ids : u # q.user => Held(q) \cap Owned(u) \subseteq contested

Nameless(q) == q.pc \in {"name", "find", "create"} => q.user = 0

OwnerInv ==
    /\ RivalsOnRecord
    /\ \A r \in Slots : HoldsFree(req[r]) /\ Nameless(req[r])
    /\ OneOwnerEach

LEMMA TaggedAs ==
    ASSUME NEW e, NEW n, NEW v
    PROVE  v \in Tagged(e, n) <=> \/ v = <<"email", e>> /\ e \in Emails
                                  \/ v = <<"name", n>> /\ n \in Names
BY DEF Tagged

LEMMA TagsApart ==
    ASSUME NEW a, NEW b
    PROVE  /\ <<"email", a>> # <<"name", b>>
           /\ <<"email", a>> = <<"email", b>> <=> a = b
           /\ <<"name", a>> = <<"name", b>> <=> a = b
OBVIOUS

LEMMA HeldWhen ==
    ASSUME NEW q
    PROVE  /\ q.pc = "name" => Held(q) = Tagged(q.email, Handle)
           /\ q.pc \in {"create", "convert"} => Held(q) = Tagged(q.email, q.name)
           /\ q.pc = "rename" => Held(q) = Tagged(Synthetic, q.name)
           /\ q.pc \notin {"name", "create", "convert", "rename"} => Held(q) = {}
BY DEF Held

LEMMA RivalsRecorded ==
    ASSUME RivalsOnRecord, Recorded
    PROVE  RivalsOnRecord'
<1>1. CASE contested' = contested \cup Contests(req')
  <2> SUFFICES ASSUME NEW r \in Slots, NEW s \in Slots, r # s, Rivals(req'[r], req'[s])
               PROVE  Held(req'[r]) \cap Held(req'[s]) \subseteq contested'
    BY DEF RivalsOnRecord
  <2>1. Held(req'[r]) \subseteq ({"email"} \X Emails) \cup ({"name"} \X Names)
    BY DEF Held, Tagged
  <2>2. QED
    BY <1>1, <2>1 DEF Contests
<1>2. CASE UNCHANGED flight
  BY <1>2 DEF RivalsOnRecord
<1>3. QED
  BY <1>1, <1>2 DEF Recorded

\* What a handler may do to the accounts.
Takes(r) ==
    /\ Held(req'[r]) = {}
    /\ \E v \in Ids : /\ v = req[r].user \/ req[r].user = 0
                      /\ Owned(v)' \subseteq Owned(v) \cup Held(req[r])
                      /\ \A u \in Ids \ {v} : Owned(u)' \subseteq Owned(u)
Loses == \A u \in Ids : Owned(u)' \subseteq Owned(u)

LEMMA TakeOrLose ==
    ASSUME TInv, NEW r \in Slots, Nameless(req[r]), Handler(r)
    PROVE  Takes(r) \/ Loses
<1>1. users \in [Ids -> User] /\ nextUser \in Nat /\ Flow(r)
  BY HandlerFlow DEF TInv, Basics, TypeOK
<1>2. CASE UNCHANGED users
  BY <1>2 DEF Loses, Owned, Live
<1>3. CASE GoogleVerify(r) \/ SetVerified(r)
  <2>1. PICK u \in Ids : u = req[r].user
    BY <1>3 DEF GoogleVerify, SetVerified, At, TInv, Basics, UserKnown, HasUser
  <2> DEFINE d == [users[u] EXCEPT !.verified = TRUE]
  <2>2. d.email = users[u].email /\ d.live = users[u].live /\ d.name = users[u].name
    BY <1>1 DEF User
  <2>3. users' = users \/ users' = [users EXCEPT ![u] = d]
    BY <1>3, <2>1 DEF GoogleVerify, SetVerified
  <2> HIDE DEF d
  <2>4. \A v \in Ids : /\ users'[v].email = users[v].email /\ users'[v].live = users[v].live
                       /\ users'[v].name = users[v].name
    BY <1>1, <2>2, <2>3
  <2>5. QED
    BY <2>4 DEF Loses, Owned, Live
<1>4. CASE Convert(r)
  <2>1. PICK u \in Ids : u = req[r].user
    BY <1>4 DEF Convert, At, TInv, Basics, UserKnown, HasUser
  <2> DEFINE d == [users[u] EXCEPT !.email = req[r].email, !.name = req[r].name, !.guest = FALSE, !.verified = FALSE]
  <2>2. d.email = req[r].email /\ d.name = req[r].name /\ d.live = users[u].live
    BY <1>1 DEF User
  <2>3. users' = users \/ users' = [users EXCEPT ![u] = d]
    BY <1>4, <2>1 DEF Convert
  <2> HIDE DEF d
  <2>4. CASE users' = users
    BY <2>4 DEF Loses, Owned, Live
  <2>5. CASE users' = [users EXCEPT ![u] = d]
    <3>1. Held(req[r]) = Tagged(req[r].email, req[r].name)
      BY <1>4, HeldWhen DEF Convert, At
    <3>2. users'[u] = d /\ \A v \in Ids \ {u} : users'[v] = users[v]
      BY <1>1, <2>5
    <3>3. Owned(u)' \subseteq Owned(u) \cup Held(req[r])
      BY <2>2, <3>1, <3>2 DEF Owned, Live
    <3>4. \A v \in Ids \ {u} : Owned(v)' \subseteq Owned(v)
      BY <3>2 DEF Owned, Live
    <3>5. Held(req'[r]) = {}
      <4>1. req'[r].pc \in {"idle", "reload"}
        BY <1>1, <1>4, IdleFields DEF Convert, At, Flow, Follows, Edge
      <4>2. QED
        BY <4>1, HeldWhen
    <3>6. QED
      BY <2>1, <3>3, <3>4, <3>5 DEF Takes
  <2>6. QED
    BY <2>3, <2>4, <2>5
<1>5. CASE Rename(r)
  <2>1. PICK u \in Ids : u = req[r].user
    BY <1>5 DEF Rename, At, TInv, Basics, UserKnown, HasUser
  <2> DEFINE d == [users[u] EXCEPT !.name = req[r].name]
  <2>2. d.email = users[u].email /\ d.name = req[r].name /\ d.live = users[u].live
    BY <1>1 DEF User
  <2>3. users' = users \/ users' = [users EXCEPT ![u] = d]
    BY <1>5, <2>1 DEF Rename
  <2> HIDE DEF d
  <2>4. CASE users' = users
    BY <2>4 DEF Loses, Owned, Live
  <2>5. CASE users' = [users EXCEPT ![u] = d]
    <3>1. Held(req[r]) = Tagged(Synthetic, req[r].name)
      BY <1>5, HeldWhen DEF Rename, At
    <3>2. users'[u] = d /\ \A v \in Ids \ {u} : users'[v] = users[v]
      BY <1>1, <2>5
    <3>3. Owned(u)' \subseteq Owned(u) \cup Held(req[r])
      <4>1. ASSUME Live(u)', NEW x \in Tagged(users[u].email, req[r].name)
            PROVE  x \in Tagged(users[u].email, users[u].name) \cup Tagged(Synthetic, req[r].name)
        BY TaggedAs
      <4>2. Owned(u)' = IF Live(u) THEN Tagged(users[u].email, req[r].name) ELSE {}
        BY <2>2, <3>2 DEF Owned, Live
      <4>3. QED
        BY <2>2, <3>1, <3>2, <4>1, <4>2 DEF Owned, Live
    <3>4. \A v \in Ids \ {u} : Owned(v)' \subseteq Owned(v)
      BY <3>2 DEF Owned, Live
    <3>5. Held(req'[r]) = {}
      <4>1. req'[r].pc = "idle"
        BY <1>1, <1>5, IdleFields, ReturnFlow DEF Rename, TInv, Basics, TypeOK, ReqType
      <4>2. QED
        BY <4>1, HeldWhen
    <3>6. QED
      BY <2>1, <3>3, <3>4, <3>5 DEF Takes
  <2>6. QED
    BY <2>3, <2>4, <2>5
<1>6. CASE CreateUser(r)
  <2>1. req[r].pc = "create" /\ req[r].user = 0 /\ nextUser \in Ids /\ req'[r].pc = "kit"
    BY <1>6, CreateUserFlow DEF TInv, CreateUser, At, Nameless
  <2> DEFINE d == [live |-> TRUE, email |-> req[r].email, name |-> req[r].name,
                   guest |-> req[r].handler = "guest", verified |-> req[r].ok]
  <2>2. d.email = req[r].email /\ d.name = req[r].name
    OBVIOUS
  <2>3. users' = [users EXCEPT ![nextUser] = d]
    BY <1>6 DEF CreateUser
  <2> HIDE DEF d
  <2>4. users'[nextUser] = d /\ \A v \in Ids \ {nextUser} : users'[v] = users[v]
    BY <1>1, <2>1, <2>3
  <2>5. PICK n \in Ids : n = nextUser
    BY <2>1
  <2>6. Held(req[r]) = Tagged(req[r].email, req[r].name) /\ Held(req'[r]) = {}
    BY <2>1, HeldWhen
  <2>7. Owned(n)' \subseteq Owned(n) \cup Held(req[r])
    BY <2>2, <2>4, <2>5, <2>6 DEF Owned, Live
  <2>8. \A v \in Ids \ {n} : Owned(v)' \subseteq Owned(v)
    BY <2>4, <2>5 DEF Owned, Live
  <2>9. QED
    BY <2>1, <2>6, <2>7, <2>8 DEF Takes
<1>7. CASE UndoUser(r) \/ RemoveUser(r)
  <2>1. Nobody.live = FALSE /\ users' = [users EXCEPT ![req[r].user] = Nobody]
    BY <1>7 DEF UndoUser, RemoveUser, Nobody
  <2>2. \A v \in Ids : users'[v] = users[v] \/ users'[v] = Nobody
    BY <1>1, <2>1
  <2>3. QED
    BY <2>1, <2>2 DEF Loses, Owned, Live
<1>8. QED
  BY <1>2, <1>3, <1>4, <1>5, <1>6, <1>7, PeopleWriters DEF Fail, AddResource, UndoKit

\* The step from each label at which something is looked up.
LEMMA LookupWhere ==
    ASSUME NEW r \in Slots, Handler(r), req[r].pc \in {"name", "find", "email_free", "name_owner"}
    PROVE  /\ UNCHANGED users
           /\ req[r].pc = "name" => CheckName(r)
           /\ req[r].pc = "find" => FindUser(r)
           /\ req[r].pc = "email_free" => CheckUpgrade(r)
           /\ req[r].pc = "name_owner" => CheckRename(r)
BY DEF Handler, CheckName, FindUser, GoogleVerify, CreateUser, AddResource, Fail, Guarded, UndoUser,
   UndoKit, IssueAccess, IssueRefresh, ReadBack, SendVerification, StoreExchange, PickUp, Reply,
   ClearJar, MatchSession, DropAccess, RejectRefresh, DropRefresh, SkipDelete, SetPassword,
   SpendReset, PurgeRefresh, PurgeAccess, CheckUpgrade, Convert, Reload, SetVerified,
   MarkVerified, CheckRename, Rename, RemoveUser, At

\* A callback that goes on to make an account has found none.
LEMMA FindUserFinds ==
    ASSUME Basics, NEW r \in Slots, FindUser(r), req'[r].pc = "create"
    PROVE  WithEmail(req[r].email) = {} /\ req'[r].name \in FreeNames /\ req'[r].user = req[r].user
<1>1. ReqType /\ req[r] \in Request
  BY DEF Basics, TypeOK, ReqType
<1>2. CASE \E u \in WithEmail(req[r].email) :
              Step(r, [req[r] EXCEPT !.user = u,
                         !.pc = IF ~users[u].verified /\ req[r].ok THEN "google_verify" ELSE "access"])
  <2>1. PICK u \in WithEmail(req[r].email), l \in {"google_verify", "access"} :
            Step(r, [req[r] EXCEPT !.user = u, !.pc = l])
    BY <1>2
  <2>2. req'[r].pc = l
    BY <1>1, <2>1 DEF Step, ReqType, Request
  <2>3. QED
    BY <2>2
<1>3. CASE /\ WithEmail(req[r].email) = {}
           /\ \E n \in FreeNames : Step(r, [req[r] EXCEPT !.pc = "create", !.name = n])
  <2>1. PICK n \in FreeNames : Step(r, [req[r] EXCEPT !.pc = "create", !.name = n])
    BY <1>3
  <2>2. req'[r].name = n /\ req'[r].user = req[r].user
    BY <1>1, <2>1 DEF Step, ReqType, Request
  <2>3. QED
    BY <1>3, <2>1, <2>2
<1>4. QED
  BY <1>2, <1>3 DEF FindUser

\* What a request looks up is nobody else's, or contested already.
LEMMA LooksUp ==
    ASSUME TInv, OwnerInv, NEW r \in Slots, Handler(r)
    PROVE  \/ Held(req'[r]) = {}
           \/ Held(req'[r]) = Held(req[r]) /\ req'[r].user = req[r].user
           \/ UNCHANGED users /\ HoldsFree(req'[r])
<1>1. Flow(r) /\ HoldsFree(req[r]) /\ OneOwnerEach
  BY HandlerFlow DEF TInv, OwnerInv
<1>2. CASE req'[r].pc \notin {"name", "create", "convert", "rename"}
  BY <1>2, HeldWhen
<1>3. CASE req'[r].pc = "create"
  <2>1. /\ req[r].pc \in {"name", "find"} /\ req'[r].email = req[r].email
        /\ req[r].pc = "name" => req'[r].name = req[r].name
    BY <1>1, <1>3, IdleFields DEF Flow, Follows, Edge
  <2>2. UNCHANGED users
    BY <2>1, LookupWhere
  <2>3. Held(req'[r]) = Tagged(req[r].email, req'[r].name)
    BY <1>3, <2>1, HeldWhen
  <2>4. CASE req[r].pc = "name"
    <3>1. CheckName(r)
      BY <2>4, LookupWhere
    <3>2. WithName(req[r].name) = {} /\ req'[r].user = req[r].user
      BY <1>1, <1>3, <2>4, <3>1, ReturnFlow, IdleFields
         DEF CheckName, TInv, Basics, TypeOK, ReqType, Flow, Follows
    <3>3. Held(req[r]) = Tagged(req[r].email, Handle)
      BY <2>4, HeldWhen
    <3>4. ASSUME NEW u \in Ids, u # req'[r].user, NEW x \in Held(req'[r]) \cap Owned(u)
          PROVE  x \in contested
      <4>1. Live(u) /\ x \in Tagged(users[u].email, users[u].name)
        BY <3>4 DEF Owned
      <4>2. users[u].name # req[r].name
        BY <3>2, <4>1 DEF WithName
      <4>3. x \in Tagged(req[r].email, Handle)
        BY <2>1, <2>3, <2>4, <3>4, <4>1, <4>2, TaggedAs, TagsApart
      <4>4. QED
        BY <1>1, <3>2, <3>3, <3>4, <4>3 DEF HoldsFree
    <3>5. QED
      BY <2>2, <3>4 DEF HoldsFree
  <2>5. CASE req[r].pc = "find"
    <3>1. FindUser(r)
      BY <2>5, LookupWhere
    <3>2. WithEmail(req[r].email) = {} /\ req'[r].name \in FreeNames
      BY <1>3, <3>1, FindUserFinds DEF TInv
    <3>3. ASSUME NEW u \in Ids, NEW x \in Held(req'[r]) \cap Owned(u)
          PROVE  FALSE
      <4>1. Live(u) /\ x \in Tagged(users[u].email, users[u].name)
        BY <3>3 DEF Owned
      <4>2. users[u].email # req[r].email /\ (req'[r].name \in Names => users[u].name # req'[r].name)
        BY <3>2, <4>1, AccountsAssumption DEF WithEmail, FreeNames, WithName
      <4>3. QED
        BY <2>3, <3>3, <4>1, <4>2, TaggedAs, TagsApart
    <3>4. QED
      BY <2>2, <3>3 DEF HoldsFree
  <2>6. QED
    BY <2>1, <2>4, <2>5
<1>4. CASE req'[r].pc = "convert"
  <2>1. req[r].pc = "email_free" /\ req'[r].email = req[r].email /\ req'[r].name = req[r].name /\ req'[r].user = req[r].user
    BY <1>1, <1>4, IdleFields DEF Flow, Follows, Edge
  <2>2. CheckUpgrade(r) /\ UNCHANGED users
    BY <2>1, LookupWhere
  <2>3. /\ Accepted(WithEmail(req[r].email), req[r].user)
        /\ req[r].name # Handle => Accepted(WithName(req[r].name), req[r].user)
    <3>1. ~Return(r)
      BY <1>4, ReturnFlow, IdleFields DEF TInv, Basics, TypeOK, ReqType
    <3>2. QED
      BY <2>2, <3>1 DEF CheckUpgrade
  <2>4. Held(req'[r]) = Tagged(req[r].email, req[r].name)
    BY <1>4, <2>1, HeldWhen
  <2>5. ASSUME NEW u \in Ids, u # req[r].user, NEW x \in Held(req'[r]) \cap Owned(u)
        PROVE  x \in contested
    <3>1. Live(u) /\ x \in Tagged(users[u].email, users[u].name)
      BY <2>5 DEF Owned
    <3>2. CASE x = <<"email", req[r].email>> /\ req[r].email \in Emails
      <4>1. users[u].email = req[r].email
        BY <3>1, <3>2, TaggedAs, TagsApart
      <4>2. req[r].user \in WithEmail(req[r].email)
        BY <2>3, <3>1, <4>1 DEF Accepted, WithEmail
      <4>3. req[r].user \in Ids /\ x \in Owned(req[r].user)
        BY <3>2, <4>2, TaggedAs DEF WithEmail, Owned
      <4>4. QED
        BY <1>1, <2>5, <4>3 DEF OneOwnerEach
    <3>3. CASE x = <<"name", req[r].name>> /\ req[r].name \in Names
      <4>1. users[u].name = req[r].name /\ req[r].name # Handle
        BY <3>1, <3>3, TaggedAs, TagsApart, AccountsAssumption
      <4>2. req[r].user \in WithName(req[r].name)
        BY <2>3, <3>1, <4>1 DEF Accepted, WithName
      <4>3. req[r].user \in Ids /\ x \in Owned(req[r].user)
        BY <3>3, <4>2, TaggedAs DEF WithName, Owned
      <4>4. QED
        BY <1>1, <2>5, <4>3 DEF OneOwnerEach
    <3>4. QED
      BY <2>4, <2>5, <3>2, <3>3, TaggedAs
  <2>6. QED
    BY <2>1, <2>2, <2>5 DEF HoldsFree
<1>5. CASE req'[r].pc = "rename"
  <2>1. req[r].pc = "name_owner" /\ req'[r].name = req[r].name /\ req'[r].user = req[r].user
    BY <1>1, <1>5, IdleFields DEF Flow, Follows, Edge
  <2>2. CheckRename(r) /\ UNCHANGED users
    BY <2>1, LookupWhere
  <2>3. Accepted(WithName(req[r].name), req[r].user)
    <3>1. ~Return(r)
      BY <1>5, ReturnFlow, IdleFields DEF TInv, Basics, TypeOK, ReqType
    <3>2. QED
      BY <2>2, <3>1 DEF CheckRename
  <2>4. Held(req'[r]) = Tagged(Synthetic, req[r].name)
    BY <1>5, <2>1, HeldWhen
  <2>5. ASSUME NEW u \in Ids, u # req[r].user, NEW x \in Held(req'[r]) \cap Owned(u)
        PROVE  x \in contested
    <3>1. Live(u) /\ x \in Tagged(users[u].email, users[u].name)
      BY <2>5 DEF Owned
    <3>2. x = <<"name", req[r].name>> /\ req[r].name \in Names
      BY <2>4, <2>5, TaggedAs, AccountsAssumption
    <3>3. users[u].name = req[r].name
      BY <3>1, <3>2, TaggedAs, TagsApart
    <3>4. req[r].user \in WithName(req[r].name)
      BY <2>3, <3>1, <3>3 DEF Accepted, WithName
    <3>5. req[r].user \in Ids /\ x \in Owned(req[r].user)
      BY <3>2, <3>4, TaggedAs DEF WithName, Owned
    <3>6. QED
      BY <1>1, <2>5, <3>5 DEF OneOwnerEach
  <2>6. QED
    BY <2>1, <2>2, <2>5 DEF HoldsFree
<1>6. ASSUME req'[r].pc = "name" PROVE Held(req'[r]) = Held(req[r]) /\ req'[r].user = req[r].user
  BY <1>1, <1>6, IdleFields DEF Flow, Follows, Edge
<1>7. QED
  BY <1>2, <1>3, <1>4, <1>5, <1>6
\* A step of a handler keeps it all.
LEMMA OwnersStep ==
    ASSUME TInv, OwnerInv, NEW r \in Slots, Handler(r)
    PROVE  OwnerInv'
<1>1. Flow(r) /\ contested \subseteq contested' /\ Nameless(req[r])
  BY HandlerFlow, HandlerRecords DEF TInv, OwnerInv, Recorded
<1>2. RivalsOnRecord'
  BY HandlerRecords, RivalsRecorded DEF OwnerInv
<1>3. \A s \in Slots : Nameless(req'[s])
  <2>1. Nameless(req'[r])
    <3>1. CASE req'[r].pc = "create" /\ req[r].pc = "find"
      BY <1>1, <3>1, LookupWhere, FindUserFinds DEF TInv, Nameless
    <3>2. CASE ~(req'[r].pc = "create" /\ req[r].pc = "find")
      BY <1>1, <3>2, IdleFields DEF Nameless, Flow, Follows, Edge
    <3>3. QED
      BY <3>1, <3>2
  <2>2. QED
    BY <1>1, <2>1 DEF OwnerInv, Nameless, Flow
<1>4. CASE Loses
  <2>1. OneOwnerEach'
    BY <1>1, <1>4 DEF OwnerInv, OneOwnerEach, Loses
  <2>2. \A s \in Slots \ {r} : HoldsFree(req[s])'
    BY <1>1, <1>4 DEF OwnerInv, HoldsFree, Loses, Flow
  <2>3. HoldsFree(req[r])'
    <3>1. CASE Held(req'[r]) = {}
      BY <3>1 DEF HoldsFree
    <3>2. CASE Held(req'[r]) = Held(req[r]) /\ req'[r].user = req[r].user
      BY <1>1, <1>4, <3>2 DEF OwnerInv, HoldsFree, Loses
    <3>3. CASE UNCHANGED users /\ HoldsFree(req'[r])
      BY <1>1, <1>4, <3>3 DEF HoldsFree, Loses
    <3>4. QED
      BY <3>1, <3>2, <3>3, LooksUp
  <2>4. QED
    BY <1>2, <1>3, <2>1, <2>2, <2>3 DEF OwnerInv
<1>5. CASE Takes(r)
  <2>1. PICK v \in Ids : /\ v = req[r].user \/ req[r].user = 0
                         /\ Owned(v)' \subseteq Owned(v) \cup Held(req[r])
                         /\ \A u \in Ids \ {v} : Owned(u)' \subseteq Owned(u)
    BY <1>5 DEF Takes
  <2>2. \A u \in Ids : u # v => u # req[r].user
    BY <2>1 DEF Ids
  <2>3. \A u \in Ids \ {v} : Owned(v)' \cap Owned(u)' \subseteq contested
    <3> SUFFICES ASSUME NEW u \in Ids \ {v}, NEW x \in Owned(v)', x \in Owned(u)' PROVE x \in contested
      OBVIOUS
    <3>1. x \in Owned(u) /\ x \in Owned(v) \cup Held(req[r])
      BY <2>1
    <3>2. Held(req[r]) \cap Owned(u) \subseteq contested
      BY <2>2 DEF OwnerInv, HoldsFree
    <3>3. Owned(v) \cap Owned(u) \subseteq contested
      BY DEF OwnerInv, OneOwnerEach
    <3>4. QED
      BY <3>1, <3>2, <3>3
  <2>4. OneOwnerEach'
    <3> SUFFICES ASSUME NEW u \in Ids, NEW w \in Ids, u # w PROVE Owned(u)' \cap Owned(w)' \subseteq contested'
      BY DEF OneOwnerEach
    <3>1. CASE u = v \/ w = v
      BY <1>1, <2>3, <3>1
    <3>2. CASE u # v /\ w # v
      <4>1. Owned(u)' \subseteq Owned(u) /\ Owned(w)' \subseteq Owned(w)
        BY <2>1, <3>2
      <4>2. QED
        BY <1>1, <4>1 DEF OwnerInv, OneOwnerEach
    <3>3. QED
      BY <3>1, <3>2
  <2>5. ASSUME NEW s \in Slots \ {r} PROVE HoldsFree(req[s])'
    <3> SUFFICES ASSUME NEW u \in Ids, u # req[s].user, NEW x \in Held(req[s]), x \in Owned(u)'
                 PROVE  x \in contested
      BY <1>1 DEF HoldsFree, Flow
    <3>1. Held(req[s]) \cap Owned(u) \subseteq contested
      BY DEF OwnerInv, HoldsFree
    <3>2. CASE x \in Owned(u)
      BY <3>1, <3>2
    <3>3. CASE u = v /\ x \in Held(req[r])
      <4>1. Rivals(req[r], req[s])
        BY <2>1, <3>3 DEF Rivals
      <4>2. QED
        BY <3>3, <4>1 DEF OwnerInv, RivalsOnRecord
    <3>4. QED
      BY <2>1, <3>2, <3>3
  <2>6. HoldsFree(req[r])'
    BY <1>5 DEF Takes, HoldsFree
  <2>7. QED
    BY <1>2, <1>3, <2>4, <2>5, <2>6 DEF OwnerInv
<1>6. QED
  BY <1>1, <1>4, <1>5, TakeOrLose

\* The requests that begin with something in hand, or with no account.
LEMMA SignupHolds ==
    ASSUME TInv, NEW r \in Slots, SignupBegin(r)
    PROVE  req'[r].user = 0 /\ req'[r].pc = "name" /\ WithEmail(req'[r].email) = {}
<1>1. PICK e \in Emails, n \in Names :
          /\ WithEmail(e) = {}
          /\ Begin(r, [Idle EXCEPT !.pc = "name", !.handler = "signup", !.email = e, !.name = n])
  BY DEF SignupBegin
<1> DEFINE p == [Idle EXCEPT !.pc = "name", !.handler = "signup", !.email = e, !.name = n]
<1>2. p \in Request /\ p.user = 0 /\ p.email = e /\ p.pc = "name"
  BY IdleType, IdleFields DEF Request, Labels, Endpoints, Provisioning
<1>3. Step(r, p)
  BY <1>1 DEF Begin
<1> HIDE DEF p
<1>4. req'[r] = p
  BY <1>2, <1>3, StepSlot DEF TInv, Basics, TypeOK, ReqType
<1>5. QED
  BY <1>1, <1>2, <1>4

LEMMA CallHolds ==
    ASSUME TInv, NEW r \in Slots, Call(r)
    PROVE  Nameless(req'[r]) /\ \A u \in Ids : Held(req'[r]) \cap Owned(u) = {}
<1>1. CASE SignupBegin(r)
  <2>1. req'[r].user = 0 /\ req'[r].pc = "name" /\ WithEmail(req'[r].email) = {}
    BY <1>1, SignupHolds
  <2>2. Held(req'[r]) = Tagged(req'[r].email, Handle)
    BY <2>1, HeldWhen
  <2>3. ASSUME NEW u \in Ids, NEW x \in Held(req'[r]), x \in Owned(u) PROVE FALSE
    <3>1. Live(u) /\ x \in Tagged(users[u].email, users[u].name)
      BY <2>3 DEF Owned
    <3>2. users[u].email # req'[r].email
      BY <2>1, <3>1 DEF WithEmail
    <3>3. QED
      BY <2>2, <2>3, <3>1, <3>2, TaggedAs, TagsApart, AccountsAssumption
  <2>4. QED
    BY <2>1, <2>3 DEF Nameless
<1>2. CASE GuestBegin(r)
  <2> DEFINE p == [Idle EXCEPT !.pc = "create", !.handler = "guest"]
  <2>1. p \in Request /\ p.user = 0 /\ p.email = Synthetic /\ p.name = Handle /\ p.pc = "create"
    BY IdleType, IdleFields DEF Request, Labels, Endpoints, Provisioning
  <2>2. Step(r, p)
    BY <1>2 DEF GuestBegin, Begin
  <2> HIDE DEF p
  <2>3. req'[r] = p
    BY <2>1, <2>2, StepSlot DEF TInv, Basics, TypeOK, ReqType
  <2>4. Held(req'[r]) = Tagged(Synthetic, Handle)
    BY <2>1, <2>3, HeldWhen
  <2>5. Tagged(Synthetic, Handle) = {}
    BY AccountsAssumption DEF Tagged
  <2>6. QED
    BY <2>1, <2>3, <2>4, <2>5 DEF Nameless
<1>3. CASE CallbackBegin(r)
  <2>1. PICK g \in GoogleProfile :
            Begin(r, [Idle EXCEPT !.pc = "find", !.handler = "google", !.email = g.email, !.ok = g.verified])
    BY <1>3 DEF CallbackBegin
  <2> DEFINE p == [Idle EXCEPT !.pc = "find", !.handler = "google", !.email = g.email, !.ok = g.verified]
  <2>2. g.email \in Emails /\ g.verified \in BOOLEAN
    BY DEF GoogleProfile
  <2>3. p \in Request /\ p.user = 0 /\ p.pc = "find"
    BY <2>2, IdleType, IdleFields DEF Request, Labels, Endpoints, Provisioning
  <2>4. Step(r, p)
    BY <2>1 DEF Begin
  <2> HIDE DEF p
  <2>5. req'[r] = p
    BY <2>3, <2>4, StepSlot DEF TInv, Basics, TypeOK, ReqType
  <2>6. QED
    BY <2>3, <2>5, HeldWhen DEF Nameless
<1>4. CASE ~(SignupBegin(r) \/ GuestBegin(r) \/ CallbackBegin(r))
  <2>1. req'[r].pc \notin {"name", "find", "create", "convert", "rename"}
    BY <1>4, ExchangeOpens, LoginOpens, RefreshOpens, LogoutOpens, ConfirmOpens, UpgradeOpens, VerifyOpens,
       ResendOpens, RenameOpens, RemoveOpens DEF Call, TInv
  <2>2. QED
    BY <2>1, HeldWhen DEF Nameless
<1>5. QED
  BY <1>1, <1>2, <1>3, <1>4

\* A step that moves one request and leaves the accounts alone keeps it all if
\* what that request then holds is free.
LEMMA OwnersKept ==
    ASSUME OwnerInv, NEW r \in Slots, UNCHANGED users, \A s \in Slots : s # r => req'[s] = req[s],
           Nameless(req'[r]), HoldsFree(req'[r]), Recorded
    PROVE  OwnerInv'
<1>1. contested \subseteq contested' /\ \A u \in Ids : Owned(u)' = Owned(u)
  BY DEF Owned, Live, Recorded
<1>2. RivalsOnRecord'
  BY RivalsRecorded DEF OwnerInv
<1>3. OneOwnerEach'
  BY <1>1 DEF OwnerInv, OneOwnerEach
<1>4. \A s \in Slots : HoldsFree(req[s])' /\ Nameless(req'[s])
  BY <1>1 DEF OwnerInv, HoldsFree
<1>5. QED
  BY <1>2, <1>3, <1>4 DEF OwnerInv

LEMMA OwnersInit == Init => OwnerInv
<1> SUFFICES ASSUME Init PROVE OwnerInv
  OBVIOUS
<1>1. \A r \in Slots : req[r].pc = "idle" /\ req[r].user = 0 /\ Held(req[r]) = {}
  BY IdleFields, HeldWhen DEF Init
<1>2. \A u \in Ids : Owned(u) # {} => u = 1
  BY DEF Init, Owned, Live, Nobody
<1>3. QED
  BY <1>1, <1>2 DEF OwnerInv, RivalsOnRecord, HoldsFree, Nameless, OneOwnerEach

LEMMA OwnersNext == TInv /\ OwnerInv /\ [Next]_vars => OwnerInv'
<1> SUFFICES ASSUME TInv, OwnerInv, [Next]_vars PROVE OwnerInv'
  OBVIOUS
<1>1. ASSUME NEW r \in Slots, Handler(r) PROVE OwnerInv'
  BY <1>1, OwnersStep
<1>2. ASSUME NEW r \in Slots, Call(r) PROVE OwnerInv'
  <2>1. UNCHANGED users /\ \A s \in Slots : s # r => req'[s] = req[s]
    BY <1>2, CallWrites, CallOpens DEF TInv, Opened
  <2>2. Nameless(req'[r]) /\ HoldsFree(req'[r])
    BY <1>2, CallHolds DEF HoldsFree
  <2>3. QED
    BY <1>2, <2>1, <2>2, OwnersKept, CallRecords
<1>3. ASSUME NEW r \in Slots, Kill(r) PROVE OwnerInv'
  <2>1. Flow(r) /\ req'[r].pc = "idle" /\ UNCHANGED users
    BY <1>3, ReturnFlow, IdleFields DEF Kill, TInv, Basics, TypeOK, ReqType
  <2>2. Nameless(req'[r]) /\ HoldsFree(req'[r])
    BY <2>1, HeldWhen DEF HoldsFree, Nameless
  <2>3. QED
    BY <1>3, <2>1, <2>2, OwnersKept, CallRecords DEF Flow
<1>4. CASE Aside \/ UNCHANGED vars
  <2>1. UNCHANGED <<users, flight>>
    BY <1>4, AsideWrites
  <2>2. QED
    BY <2>1 DEF OwnerInv, RivalsOnRecord, HoldsFree, Nameless, OneOwnerEach, Owned, Live
<1>5. QED
  BY <1>1, <1>2, <1>3, <1>4, NextCases

\* An address or a username has one owner unless two requests for different
\* accounts had found it free at the same time, for any number of requests in
\* flight, rolled back, killed or repeated.
THEOREM AccountsOneOwnerEach == Spec => []OneOwnerEach
<1>1. OwnerInv => OneOwnerEach
  BY DEF OwnerInv
<1>2. QED
  BY <1>1, TInvAlways, OwnersInit, OwnersNext, PTL DEF Spec
=============================================================================
