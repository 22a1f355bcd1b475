------------------------------ MODULE Accounts ------------------------------
(***************************************************************************)
(* Accounts and their sessions: sign-up with rollback, guests and their    *)
(* upgrade, Google sign-in, login, refresh, logout, e-mail verification,   *)
(* password reset, renaming and removal.  The workers share the database   *)
(* and nothing else, and no handler uses a transaction: a handler is a     *)
(* sequence of actions, one per database round trip others can notice.     *)
(*                                                                         *)
(* Passwords are left out: a login or a reset that is refused writes       *)
(* nothing, so only those with the right password or token are modelled;   *)
(* the same holds for tokens refused because they are too old.  A          *)
(* definition whose comment starts with "Fault" is a variant of the one    *)
(* after it with a plausible bug; no action uses it.                       *)
(***************************************************************************)
EXTENDS Naturals

CONSTANTS
    Slots,       \* requests in flight
    Clients,     \* browsers, each with one cookie jar
    Owner,       \* Owner[r]: the browser that sends the requests of slot r
    Emails,      \* addresses somebody reads; spellings count
    LowerCase,   \* LowerCase[e]: the address e in lower case
    Names,       \* usernames clients ask for
    Handlers,    \* the endpoints the clients call
    Settled,     \* whether an account existed before
    MaxUsers,    \* bound: accounts ever created
    MaxCalls,    \* bound: requests of one behaviour
    MaxErrors,   \* bound: database errors that a handler catches
    MaxKills     \* bound: requests killed; each uses up one of the calls

\* The address of a guest, which nobody reads, and a random username, which
\* no other account has.
Synthetic == "guest address"
Handle    == "random handle"

Provisioning == {"signup", "guest", "google"}
Endpoints == Provisioning \cup {"login", "refresh", "logout", "reset", "upgrade", "verify",
                                "resend", "rename", "remove", "exchange"}

ASSUME AccountsAssumption ==
    /\ Owner \in [Slots -> Clients]
    /\ LowerCase \in [Emails -> Emails]
    /\ Synthetic \notin Emails /\ Handle \notin Names
    /\ Handlers \subseteq Endpoints
    /\ Settled \in BOOLEAN /\ (Settled => Emails # {})
    /\ MaxUsers \in Nat \ {0} /\ MaxCalls \in Nat
    /\ MaxErrors \in Nat /\ MaxKills \in Nat

VARIABLES
    users,       \* db.users, by order of insertion
    nextUser,
    kit,         \* how many of inventory, loadout, wallet, welcome note are stored
    access,      \* db.accessToken
    refresh,     \* db.refreshToken
    nextId,      \* the next id of a token, of a session or a one-time one
    verifs,      \* db.email_verification_tokens, and the address each was sent to
    resets,      \* db.password_reset_tokens
    states,      \* db.google_oauth_states: how many are outstanding
    codes,       \* db.google_oauth_exchanges
    jar,         \* the di_access and di_refresh cookies of each browser; 0 is none
    kept,        \* the refresh tokens each browser was ever given, and may send again
    req,         \* the request in each slot
    calls, errors, kills

\* History of the behaviour; no action reads it.
VARIABLES
    closed,      \* users removed by their owner
    proven,      \* proven[u]: addresses u was shown to own
    purged,      \* refresh tokens ended with all others of their user
    cutoff,      \* cutoff[u]: tokens of u up to here were issued before a purge that is over
    torn,        \* browsers one of whose requests was killed
    contested    \* addresses and usernames two requests had found free at once

people  == <<users, nextUser, kit>>
tokens  == <<access, refresh, nextId>>
mailbox == <<verifs, resets>>
google  == <<states, codes>>
browser == <<jar, kept>>
flight  == <<req, contested>>
bounds  == <<calls, errors, kills>>
history == <<closed, proven, purged, cutoff, torn>>
vars    == <<people, tokens, mailbox, google, browser, flight, bounds, history>>

Ids == 1..MaxUsers
User == [live : BOOLEAN, email : Emails \cup {Synthetic}, name : Names \cup {Handle},
         guest : BOOLEAN, verified : BOOLEAN]
Nobody == [live |-> FALSE, email |-> Synthetic, name |-> Handle, guest |-> FALSE, verified |-> FALSE]
Pair == [access : Nat, refresh : Nat]
NoPair == [access |-> 0, refresh |-> 0]

Labels == {"idle", "name", "create", "find", "google_verify", "kit", "access", "refresh",
           "read_back", "verification", "exchange", "undo", "undo_kit", "match", "reject",
           "reject_access", "drop_access", "drop_refresh", "reply", "clear", "password", "spend",
           "purge_refresh", "purge_access", "email_free", "convert", "reload", "verify", "mark",
           "name_owner", "rename", "remove", "pick_up"}

Request == [pc : Labels, handler : Endpoints, user : Ids \cup {0},
            email : Emails \cup {Synthetic}, name : Names \cup {Handle},
            ok : BOOLEAN,           \* verified_email of the Google profile; the user to remove was there
            old : Pair,             \* the tokens the request came with
            new : Pair,             \* the tokens it issued
            item : Nat,             \* the one-time token
            mark : Nat]             \* for the history: nextId when the user was changed
Idle == [pc |-> "idle", handler |-> "login", user |-> 0, email |-> Synthetic, name |-> Handle,
         ok |-> FALSE, old |-> NoPair, new |-> NoPair, item |-> 0, mark |-> 0]

\* What a request has looked up and not written yet: a sign-up and an upgrade
\* both, a Google callback as well, a renaming the username.
Tagged(email, name) == ({"email"} \X ({email} \cap Emails)) \cup ({"name"} \X ({name} \cap Names))
Held(q) == CASE q.pc = "name"                   -> Tagged(q.email, Handle)
             [] q.pc \in {"create", "convert"}  -> Tagged(q.email, q.name)
             [] q.pc = "rename"                 -> Tagged(Synthetic, q.name)
             [] OTHER                           -> {}

\* What two requests for different accounts, those that are yet to be made
\* included, hold at the same time.
Rivals(q, p) == q.user # p.user \/ q.user = 0
Contests(requests) ==
    {v \in ({"email"} \X Emails) \cup ({"name"} \X Names) :
        \E r, s \in Slots : /\ r # s /\ Rivals(requests[r], requests[s])
                            /\ v \in Held(requests[r]) \cap Held(requests[s])}

At(r, label)   == req[r].pc = label
Step(r, q)     == /\ req' = [req EXCEPT ![r] = q]
                  /\ contested' = contested \cup Contests(req')
Goto(r, label) == Step(r, [req[r] EXCEPT !.pc = label])
Return(r)      == Step(r, Idle)
Count          == calls < MaxCalls /\ calls' = calls + 1
Begin(r, q)    == /\ At(r, "idle") /\ q.handler \in Handlers
                  /\ Count
                  /\ Step(r, q)

Live(u)      == users[u].live
WithEmail(e) == {u \in Ids : Live(u) /\ users[u].email = e}
WithName(n)  == {u \in Ids : Live(u) /\ users[u].name = n}
Client(r)    == Owner[r]

\* The token a lookup by id finds, as a set of at most one.
RefreshToken(id) == {t \in refresh : t.id = id}

\* verify_token: the user of the access cookie, if the token is still there.
Caller(r) == {t.user : t \in {a \in access : a.id = jar[Client(r)].access}}

Init ==
    /\ users = [u \in Ids |-> IF Settled /\ u = 1
                              THEN [live |-> TRUE, email |-> CHOOSE e \in Emails : TRUE, name |-> Handle,
                                    guest |-> FALSE, verified |-> FALSE]
                              ELSE Nobody]
    /\ nextUser = IF Settled THEN 2 ELSE 1
    /\ kit = [u \in Ids |-> IF Settled /\ u = 1 THEN 4 ELSE 0]
    /\ access = {} /\ refresh = {} /\ nextId = 1
    /\ verifs = {} /\ resets = {} /\ states = 0 /\ codes = {}
    /\ jar = [c \in Clients |-> NoPair] /\ kept = [c \in Clients |-> {}]
    /\ req = [r \in Slots |-> Idle]
    /\ calls = 0 /\ errors = 0 /\ kills = 0
    /\ closed = {} /\ proven = [u \in Ids |-> {}] /\ purged = {}
    /\ cutoff = [u \in Ids |-> 0] /\ torn = {} /\ contested = {}

(***************************************************************************)
(* Sign-up, guests, Google: how an account is created.                     *)
(***************************************************************************)
\* add_user: 409 unless the email, and then the username, is free.
SignupBegin(r) ==
    /\ \E e \in Emails, n \in Names :
          /\ WithEmail(e) = {}
          /\ Begin(r, [Idle EXCEPT !.pc = "name", !.handler = "signup", !.email = e, !.name = n])
    /\ UNCHANGED <<people, tokens, mailbox, google, browser, errors, kills, history>>

CheckName(r) ==
    /\ At(r, "name")
    /\ IF WithName(req[r].name) # {} THEN Return(r) ELSE Goto(r, "create")
    /\ UNCHANGED <<people, tokens, mailbox, google, browser, bounds, history>>

\* create_guest_session: the random handle and address are always free.
GuestBegin(r) ==
    /\ Begin(r, [Idle EXCEPT !.pc = "create", !.handler = "guest"])
    /\ UNCHANGED <<people, tokens, mailbox, google, browser, errors, kills, history>>

\* build_authorize_url.
GoogleStart ==
    /\ "google" \in Handlers /\ states' = states + 1 /\ Count
    /\ UNCHANGED <<people, tokens, mailbox, codes, browser, flight, errors, kills, history>>

\* _consume_state: one find_one_and_delete.
ConsumeState == states > 0 /\ states' = states - 1

\* What _fetch_userinfo may answer.
GoogleProfile == [email : Emails, verified : BOOLEAN]

\* handle_callback, which then has a profile; when Google reports an error it
\* returns without another write.
CallbackBegin(r) ==
    /\ ConsumeState
    /\ \E p \in GoogleProfile :
          Begin(r, [Idle EXCEPT !.pc = "find", !.handler = "google", !.email = p.email, !.ok = p.verified])
    /\ UNCHANGED <<people, tokens, mailbox, codes, browser, errors, kills, history>>

\* _generate_unique_username: the first part of the address, or that with a
\* random suffix.
FreeNames == {n \in Names : WithName(n) = {}} \cup {Handle}

\* _find_or_create_user.  The username is searched for after the address; no
\* other handler can tell the two reads apart, since neither is held on to.
FindUser(r) ==
    /\ At(r, "find")
    /\ \/ \E u \in WithEmail(req[r].email) :
             Step(r, [req[r] EXCEPT !.user = u,
                         !.pc = IF ~users[u].verified /\ req[r].ok THEN "google_verify" ELSE "access"])
       \/ /\ WithEmail(req[r].email) = {}
          /\ \E n \in FreeNames :
                Step(r, [req[r] EXCEPT !.pc = "create", !.name = n])
    /\ UNCHANGED <<people, tokens, mailbox, google, browser, bounds, history>>

\* The user may be gone by now: the update then finds nobody, nor does the
\* read that follows it.
GoogleVerify(r) ==
    /\ At(r, "google_verify")
    /\ LET u == req[r].user IN
          IF Live(u) THEN /\ users' = [users EXCEPT ![u].verified = TRUE]
                          /\ proven' = [proven EXCEPT ![u] = @ \cup {req[r].email}]
                          /\ Goto(r, "access")
                     ELSE UNCHANGED <<users, proven>> /\ Return(r)
    /\ UNCHANGED <<nextUser, kit, tokens, mailbox, google, browser, bounds, closed, purged, cutoff, torn>>

\* create_user reads the document back; nobody can have removed it so soon
\* without the effect of a kill.
CreateUser(r) ==
    /\ At(r, "create") /\ nextUser <= MaxUsers
    /\ users' = [users EXCEPT ![nextUser] =
                    [live |-> TRUE, email |-> req[r].email, name |-> req[r].name,
                     guest |-> req[r].handler = "guest", verified |-> req[r].ok]]
    /\ proven' = [proven EXCEPT ![nextUser] = IF req[r].ok THEN {req[r].email} ELSE {}]
    /\ nextUser' = nextUser + 1
    /\ Step(r, [req[r] EXCEPT !.pc = "kit", !.user = nextUser])
    /\ UNCHANGED <<kit, tokens, mailbox, google, browser, bounds, closed, purged, cutoff, torn>>

\* Fault: one insert too many.
AddOneMore(r) ==
    /\ At(r, "kit")
    /\ kit' = [kit EXCEPT ![req[r].user] = @ + 1]
    /\ IF kit[req[r].user] > 3 THEN Goto(r, "access") ELSE UNCHANGED flight
    /\ UNCHANGED <<users, nextUser, tokens, mailbox, google, browser, bounds, history>>

\* Inventory, loadout, wallet and welcome notification, one insert each.
AddResource(r) ==
    /\ At(r, "kit")
    /\ kit' = [kit EXCEPT ![req[r].user] = @ + 1]
    /\ IF kit[req[r].user] = 3 THEN Goto(r, "access") ELSE UNCHANGED flight
    /\ UNCHANGED <<users, nextUser, tokens, mailbox, google, browser, bounds, history>>

\* What the try block of each provisioning handler covers.
Guarded(r) == \/ req[r].handler = "signup" /\ req[r].pc \in {"kit", "access", "refresh", "read_back",
                                                             "verification"}
              \/ req[r].handler = "guest"  /\ req[r].pc \in {"kit", "access", "refresh", "read_back"}
              \/ req[r].handler = "google" /\ req[r].pc = "kit"

Raise(r) == IF Guarded(r) THEN Goto(r, "undo") ELSE Return(r)

\* A database error inside the block.
Fail(r) ==
    /\ Guarded(r) /\ errors < MaxErrors
    /\ errors' = errors + 1
    /\ Raise(r)
    /\ UNCHANGED <<people, tokens, mailbox, google, browser, calls, kills, history>>

\* _rollback_signup, _rollback_guest_signup: the user first.
UndoUser(r) ==
    /\ At(r, "undo")
    /\ users' = [users EXCEPT ![req[r].user] = Nobody]
    /\ Goto(r, "undo_kit")
    /\ UNCHANGED <<nextUser, kit, tokens, mailbox, google, browser, bounds, history>>

\* Fault: the deletes after the user's are lost.
UndoNothing(r) ==
    /\ At(r, "undo_kit")
    /\ Return(r)
    /\ UNCHANGED <<people, tokens, mailbox, google, browser, bounds, history>>

\* The four deletes of what belongs to the user, which nobody can look up any
\* more, and after a sign-up his verification tokens.
UndoKit(r) ==
    /\ At(r, "undo_kit")
    /\ kit' = [kit EXCEPT ![req[r].user] = 0]
    /\ verifs' = IF req[r].handler = "signup" THEN {v \in verifs : v.user # req[r].user} ELSE verifs
    /\ Return(r)
    /\ UNCHANGED <<users, nextUser, tokens, resets, google, browser, bounds, history>>

(***************************************************************************)
(* _issue_session, and what follows it.                                    *)
(***************************************************************************)
IssueAccess(r) ==
    /\ At(r, "access")
    /\ access' = access \cup {[id |-> nextId, user |-> req[r].user]}
    /\ nextId' = nextId + 1
    /\ Step(r, [req[r] EXCEPT !.pc = "refresh", !.new.access = nextId])
    /\ UNCHANGED <<people, refresh, mailbox, google, browser, bounds, history>>

\* The insert of the access token reads it back, and fails if it is gone.  A
\* purge between that read and the insert of the refresh token has the effect
\* of one around the insert, so they can be taken as one.
IssueRefresh(r) ==
    /\ At(r, "refresh")
    /\ LET q == req[r] IN
          IF \A a \in access : a.id # q.new.access
          THEN Raise(r) /\ UNCHANGED <<refresh, nextId>>
          ELSE /\ refresh' = refresh \cup {[id |-> nextId, user |-> q.user, prev |-> q.new.access]}
               /\ nextId' = nextId + 1
               /\ Step(r, [q EXCEPT !.pc = "read_back", !.new.refresh = nextId])
    /\ UNCHANGED <<people, access, mailbox, google, browser, bounds, history>>

AfterIssue == [h \in Endpoints |-> CASE h \in {"signup", "upgrade"} -> "verification"
                                     [] h = "google"                -> "exchange"
                                     [] h = "refresh"               -> "drop_access"
                                     [] OTHER                       -> "reply"]

ReadBack(r) ==
    /\ At(r, "read_back")
    /\ IF RefreshToken(req[r].new.refresh) = {} THEN Raise(r)
       ELSE Goto(r, AfterIssue[req[r].handler])
    /\ UNCHANGED <<people, tokens, mailbox, google, browser, bounds, history>>

\* _create_email_verification.
SendVerification(r) ==
    /\ At(r, "verification")
    /\ nextId' = nextId + 1
    /\ verifs' = verifs \cup {[id |-> nextId, user |-> req[r].user, to |-> req[r].email, used |-> FALSE]}
    /\ IF req[r].handler = "resend" THEN Return(r) ELSE Goto(r, "reply")
    /\ UNCHANGED <<people, access, refresh, resets, google, browser, bounds, history>>

\* _store_exchange_record: the code travels through the browser.
StoreExchange(r) ==
    /\ At(r, "exchange")
    /\ codes' = codes \cup {[client |-> Client(r), user |-> req[r].user, pair |-> req[r].new]}
    /\ Return(r)
    /\ UNCHANGED <<people, tokens, mailbox, states, browser, bounds, history>>

\* Fault: the code is looked up, and deleted by nobody.
ExchangeKeepsCode(r) ==
    /\ \E k \in codes :
          /\ k.client = Client(r)
          /\ Begin(r, [Idle EXCEPT !.pc = "pick_up", !.handler = "exchange", !.user = k.user,
                                   !.new = k.pair])
    /\ UNCHANGED <<people, tokens, mailbox, google, browser, errors, kills, history>>

\* consume_exchange_code: one find_one_and_delete.
ExchangeBegin(r) ==
    /\ \E k \in codes :
          /\ k.client = Client(r)
          /\ codes' = codes \ {k}
          /\ Begin(r, [Idle EXCEPT !.pc = "pick_up", !.handler = "exchange", !.user = k.user,
                                   !.new = k.pair])
    /\ UNCHANGED <<people, tokens, mailbox, states, browser, errors, kills, history>>

PickUp(r) ==
    /\ At(r, "pick_up")
    /\ IF Live(req[r].user) THEN Goto(r, "reply") ELSE Return(r)
    /\ UNCHANGED <<people, tokens, mailbox, google, browser, bounds, history>>

\* The response arrives: set_auth_cookies.
Reply(r) ==
    /\ At(r, "reply")
    /\ jar' = [jar EXCEPT ![Client(r)] = req[r].new]
    /\ kept' = [kept EXCEPT ![Client(r)] = @ \cup {req[r].new.refresh}]
    /\ Return(r)
    /\ UNCHANGED <<people, tokens, mailbox, google, bounds, history>>

ClearJar(r) ==
    /\ At(r, "clear")
    /\ jar' = [jar EXCEPT ![Client(r)] = NoPair]
    /\ Return(r)
    /\ UNCHANGED <<people, tokens, mailbox, google, kept, bounds, history>>

(***************************************************************************)
(* Login, refresh, logout.                                                 *)
(***************************************************************************)
LoginBegin(r) ==
    /\ \E u \in Ids : /\ Live(u) /\ users[u].email \in Emails
                      /\ Begin(r, [Idle EXCEPT !.pc = "access", !.handler = "login", !.user = u])
    /\ UNCHANGED <<people, tokens, mailbox, google, browser, errors, kills, history>>

\* verify_token_to_refresh: the cookie must name a token; with it goes the
\* access cookie or, when the browser has dropped that, the access token it
\* was issued with.  The body may name another refresh token the client keeps.
RefreshBegin(r) ==
    /\ \E t \in RefreshToken(jar[Client(r)].refresh), body \in kept[Client(r)] :
          Begin(r, [Idle EXCEPT !.pc = "match", !.handler = "refresh",
                          !.old = [access  |-> IF jar[Client(r)].access # 0 THEN jar[Client(r)].access
                                               ELSE t.prev,
                                   refresh |-> body]])
    /\ UNCHANGED <<people, tokens, mailbox, google, browser, errors, kills, history>>

\* get_refresh_tokens, then the user.  A user is deleted before his tokens, so
\* the second read can only add a refusal that the first would give later.
MatchSession(r) ==
    /\ At(r, "match")
    /\ LET found == RefreshToken(req[r].old.refresh) IN
          \/ found = {} /\ Return(r)
          \/ \E t \in found :
                \/ t.prev # req[r].old.access /\ Goto(r, "reject")
                \/ t.prev = req[r].old.access /\ ~Live(t.user) /\ Return(r)
                \/ /\ t.prev = req[r].old.access /\ Live(t.user)
                   /\ Step(r, [req[r] EXCEPT !.pc = "access", !.user = t.user])
    /\ UNCHANGED <<people, tokens, mailbox, google, browser, bounds, history>>

\* Fault: the new session goes with the old one.
DropEverySession(r) ==
    /\ At(r, "drop_refresh")
    /\ refresh' = {t \in refresh : req[r].handler = "refresh" => t.user # req[r].user}
    /\ Goto(r, IF req[r].handler = "logout" THEN "clear" ELSE "reply")
    /\ UNCHANGED <<people, access, nextId, mailbox, google, browser, bounds, history>>

\* delete_access_token, delete_refresh_token: of a refresh that does not match
\* the session the refresh token goes first.
DropAccess(r) ==
    /\ At(r, "drop_access") \/ At(r, "reject_access")
    /\ access' = {a \in access : a.id # req[r].old.access}
    /\ IF At(r, "drop_access") THEN Goto(r, "drop_refresh") ELSE Return(r)
    /\ UNCHANGED <<people, refresh, nextId, mailbox, google, browser, bounds, history>>

RejectRefresh(r) ==
    /\ At(r, "reject")
    /\ refresh' = {t \in refresh : t.id # req[r].old.refresh}
    /\ Goto(r, "reject_access")
    /\ UNCHANGED <<people, access, nextId, mailbox, google, browser, bounds, history>>

DropRefresh(r) ==
    /\ At(r, "drop_refresh")
    /\ refresh' = {t \in refresh : t.id # req[r].old.refresh}
    /\ Goto(r, IF req[r].handler = "logout" THEN "clear" ELSE "reply")
    /\ UNCHANGED <<people, access, nextId, mailbox, google, browser, bounds, history>>

LogoutBegin(r) ==
    /\ Begin(r, [Idle EXCEPT !.pc = "drop_access", !.handler = "logout", !.old = jar[Client(r)]])
    /\ UNCHANGED <<people, tokens, mailbox, google, browser, errors, kills, history>>

\* A database error during one of its deletes does not stop a logout.
SkipDelete(r) ==
    /\ req[r].handler = "logout" /\ req[r].pc \in {"drop_access", "drop_refresh"}
    /\ errors < MaxErrors
    /\ errors' = errors + 1
    /\ Goto(r, IF At(r, "drop_access") THEN "drop_refresh" ELSE "clear")
    /\ UNCHANGED <<people, tokens, mailbox, google, browser, calls, kills, history>>

\* After ten days the browser drops the access cookie and the next
\* get_access_tokens deletes the token, in either order.
AccessAges(c) ==
    /\ "refresh" \in Handlers /\ jar[c].access # 0 /\ Count
    /\ jar' = [jar EXCEPT ![c].access = 0]
    /\ \/ access' = {a \in access : a.id # jar[c].access}
       \/ UNCHANGED access
    /\ UNCHANGED <<people, refresh, nextId, mailbox, google, kept, flight, errors, kills, history>>

(***************************************************************************)
(* Password reset, and delete_all_tokens_with_user_id, which an upgrade    *)
(* and a removal share with it.                                            *)
(***************************************************************************)
RequestReset ==
    /\ "reset" \in Handlers /\ Count
    /\ nextId' = nextId + 1
    /\ \E u \in Ids : /\ Live(u) /\ users[u].email \in Emails
                      /\ resets' = resets \cup {[id |-> nextId, user |-> u, used |-> FALSE]}
    /\ UNCHANGED <<people, access, refresh, verifs, google, browser, flight, errors, kills, history>>

ConfirmBegin(r) ==
    /\ \E k \in resets :
          /\ ~k.used
          /\ Begin(r, [Idle EXCEPT !.pc = "password", !.handler = "reset", !.user = k.user, !.item = k.id])
    /\ UNCHANGED <<people, tokens, mailbox, google, browser, errors, kills, history>>

\* The new password is stored.
SetPassword(r) ==
    /\ At(r, "password")
    /\ Step(r, [req[r] EXCEPT !.pc = "spend", !.mark = nextId])
    /\ UNCHANGED <<people, tokens, mailbox, google, browser, bounds, history>>

SpendReset(r) ==
    /\ At(r, "spend")
    /\ resets' = {IF k.id = req[r].item THEN [k EXCEPT !.used = TRUE] ELSE k : k \in resets}
    /\ Goto(r, "purge_refresh")
    /\ UNCHANGED <<people, tokens, verifs, google, browser, bounds, history>>

PurgeRefresh(r) ==
    /\ At(r, "purge_refresh")
    /\ LET mine == {t \in refresh : t.user = req[r].user} IN
          /\ refresh' = refresh \ mine
          /\ purged' = purged \cup {t.id : t \in mine}
    /\ Goto(r, "purge_access")
    /\ UNCHANGED <<people, access, nextId, mailbox, google, browser, bounds, closed, proven, cutoff, torn>>

AfterPurge(q) == CASE q.handler = "upgrade" -> [q EXCEPT !.pc = "access"]
                   [] q.handler = "remove" /\ q.ok -> [q EXCEPT !.pc = "clear"]
                   [] OTHER -> Idle

Later(m, n) == IF m < n THEN n ELSE m

\* Fault: only the refresh tokens are deleted.
PurgeNoAccess(r) ==
    /\ At(r, "purge_access")
    /\ cutoff' = [cutoff EXCEPT ![req[r].user] = Later(@, req[r].mark)]
    /\ Step(r, AfterPurge(req[r]))
    /\ UNCHANGED <<people, tokens, mailbox, google, browser, bounds, closed, proven, purged, torn>>

PurgeAccess(r) ==
    /\ At(r, "purge_access")
    /\ access' = {a \in access : a.user # req[r].user}
    /\ cutoff' = [cutoff EXCEPT ![req[r].user] = Later(@, req[r].mark)]
    /\ Step(r, AfterPurge(req[r]))
    /\ UNCHANGED <<people, refresh, nextId, mailbox, google, browser, bounds, closed, proven, purged, torn>>

(***************************************************************************)
(* Upgrade of a guest.                                                     *)
(***************************************************************************)
\* Fault: an account that is no guest any more may be upgraded.
UpgradeAnyone(r) ==
    /\ \E u \in Caller(r), e \in Emails : \E n \in Names \cup {users[u].name} :
          /\ Live(u)
          /\ Begin(r, [Idle EXCEPT !.pc = "email_free", !.handler = "upgrade", !.user = u,
                                   !.email = LowerCase[e], !.name = n])
    /\ UNCHANGED <<people, tokens, mailbox, google, browser, errors, kills, history>>

\* Only an upgrade turns the address into lower case.
UpgradeBegin(r) ==
    /\ \E u \in Caller(r), e \in Emails : \E n \in Names \cup {users[u].name} :
          /\ Live(u) /\ users[u].guest
          /\ Begin(r, [Idle EXCEPT !.pc = "email_free", !.handler = "upgrade", !.user = u,
                                   !.email = LowerCase[e], !.name = n])
    /\ UNCHANGED <<people, tokens, mailbox, google, browser, errors, kills, history>>

\* Does find_one refuse u this email or name?  With several owners it may
\* return any of them.
Refused(owners, u)  == owners \ {u} # {}
Accepted(owners, u) == owners = {} \/ u \in owners

\* Fault: only the address is looked up.
CheckAddress(r) ==
    /\ At(r, "email_free")
    /\ LET o == WithEmail(req[r].email) IN
          \/ Refused(o, req[r].user) /\ Return(r)
          \/ Accepted(o, req[r].user) /\ Goto(r, "convert")
    /\ UNCHANGED <<people, tokens, mailbox, google, browser, bounds, history>>

\* The owners of the address and, unless the guest keeps its handle, of the
\* username, read one after the other.
CheckUpgrade(r) ==
    /\ At(r, "email_free")
    /\ LET q == req[r]
           o == WithEmail(q.email)
           n == IF q.name = Handle THEN {} ELSE WithName(q.name) IN
          \/ (Refused(o, q.user) \/ Refused(n, q.user)) /\ Return(r)
          \/ Accepted(o, q.user) /\ Accepted(n, q.user) /\ Goto(r, "convert")
    /\ UNCHANGED <<people, tokens, mailbox, google, browser, bounds, history>>

Convert(r) ==
    /\ At(r, "convert")
    /\ LET q == req[r] IN
          /\ users' = IF Live(q.user)
                      THEN [users EXCEPT ![q.user] = [@ EXCEPT !.email = q.email, !.name = q.name,
                                                               !.guest = FALSE, !.verified = FALSE]]
                      ELSE users
          /\ Step(r, [q EXCEPT !.pc = "reload", !.mark = nextId])
    /\ UNCHANGED <<nextUser, kit, tokens, mailbox, google, browser, bounds, history>>

\* The verification goes to the address the user has when read again.
Reload(r) ==
    /\ At(r, "reload")
    /\ LET u == req[r].user IN
          IF Live(u) THEN Step(r, [req[r] EXCEPT !.pc = "purge_refresh", !.email = users[u].email])
                     ELSE Return(r)
    /\ UNCHANGED <<people, tokens, mailbox, google, browser, bounds, history>>

(***************************************************************************)
(* Verification, renaming, removal.                                        *)
(***************************************************************************)
VerifyBegin(r) ==
    /\ \E v \in verifs :
          /\ ~v.used /\ v.to \in Emails
          /\ Begin(r, [Idle EXCEPT !.pc = "verify", !.handler = "verify", !.user = v.user,
                                   !.email = v.to, !.item = v.id])
    /\ UNCHANGED <<people, tokens, mailbox, google, browser, errors, kills, history>>

SetVerified(r) ==
    /\ At(r, "verify")
    /\ LET u == req[r].user IN
          /\ users' = IF Live(u) THEN [users EXCEPT ![u].verified = TRUE] ELSE users
          /\ proven' = [proven EXCEPT ![u] = @ \cup {req[r].email}]
    /\ Goto(r, "mark")
    /\ UNCHANGED <<nextUser, kit, tokens, mailbox, google, browser, bounds, closed, purged, cutoff, torn>>

MarkVerified(r) ==
    /\ At(r, "mark")
    /\ verifs' = {IF v.id = req[r].item THEN [v EXCEPT !.used = TRUE] ELSE v : v \in verifs}
    /\ Return(r)
    /\ UNCHANGED <<people, tokens, resets, google, browser, bounds, history>>

ResendBegin(r) ==
    /\ \E u \in Caller(r) :
          /\ Live(u) /\ ~users[u].verified
          /\ Begin(r, [Idle EXCEPT !.pc = "verification", !.handler = "resend", !.user = u,
                                   !.email = users[u].email])
    /\ UNCHANGED <<people, tokens, mailbox, google, browser, errors, kills, history>>

\* update_user_by_id with a username.
RenameBegin(r) ==
    /\ \E u \in Caller(r), n \in Names :
          /\ Live(u) /\ (users[u].guest => n = users[u].name)
          /\ Begin(r, [Idle EXCEPT !.pc = "name_owner", !.handler = "rename", !.user = u, !.name = n])
    /\ UNCHANGED <<people, tokens, mailbox, google, browser, errors, kills, history>>

CheckRename(r) ==
    /\ At(r, "name_owner")
    /\ LET o == WithName(req[r].name) IN
          \/ Refused(o, req[r].user) /\ Return(r)
          \/ Accepted(o, req[r].user) /\ Goto(r, "rename")
    /\ UNCHANGED <<people, tokens, mailbox, google, browser, bounds, history>>

Rename(r) ==
    /\ At(r, "rename")
    /\ users' = IF Live(req[r].user) THEN [users EXCEPT ![req[r].user].name = req[r].name] ELSE users
    /\ Return(r)
    /\ UNCHANGED <<nextUser, kit, tokens, mailbox, google, browser, bounds, history>>

\* remove_user: the user, then the tokens; nothing else of his.  A user that
\* was gone already is a 404, which leaves the cookies alone.
RemoveBegin(r) ==
    /\ \E u \in Caller(r) : Begin(r, [Idle EXCEPT !.pc = "remove", !.handler = "remove", !.user = u])
    /\ UNCHANGED <<people, tokens, mailbox, google, browser, errors, kills, history>>

RemoveUser(r) ==
    /\ At(r, "remove")
    /\ LET u == req[r].user IN
          /\ users' = [users EXCEPT ![u] = Nobody]
          /\ closed' = closed \cup {u}
          /\ Step(r, [req[r] EXCEPT !.pc = "purge_refresh", !.ok = Live(u), !.mark = nextId])
    /\ UNCHANGED <<nextUser, kit, tokens, mailbox, google, browser, bounds, proven, purged, cutoff, torn>>

\* The worker dies, or a database error leaves a handler that has no try block:
\* what was written stays, and no response arrives.
Kill(r) ==
    /\ ~At(r, "idle") /\ kills < MaxKills
    /\ kills' = kills + 1 /\ Count
    /\ torn' = torn \cup {Client(r)}
    /\ Return(r)
    /\ UNCHANGED <<people, tokens, mailbox, google, browser, errors, closed, proven,
                   purged, cutoff>>

Handler(r) ==
    \/ CheckName(r) \/ FindUser(r) \/ GoogleVerify(r) \/ CreateUser(r) \/ AddResource(r)
    \/ Fail(r) \/ UndoUser(r) \/ UndoKit(r)
    \/ IssueAccess(r) \/ IssueRefresh(r) \/ ReadBack(r) \/ SendVerification(r) \/ StoreExchange(r)
    \/ PickUp(r) \/ Reply(r) \/ ClearJar(r)
    \/ MatchSession(r) \/ DropAccess(r) \/ RejectRefresh(r) \/ DropRefresh(r) \/ SkipDelete(r)
    \/ SetPassword(r) \/ SpendReset(r) \/ PurgeRefresh(r) \/ PurgeAccess(r)
    \/ CheckUpgrade(r) \/ Convert(r) \/ Reload(r)
    \/ SetVerified(r) \/ MarkVerified(r) \/ CheckRename(r) \/ Rename(r) \/ RemoveUser(r)

Call(r) ==
    \/ SignupBegin(r) \/ GuestBegin(r) \/ CallbackBegin(r) \/ ExchangeBegin(r)
    \/ LoginBegin(r) \/ RefreshBegin(r) \/ LogoutBegin(r) \/ ConfirmBegin(r)
    \/ UpgradeBegin(r) \/ VerifyBegin(r) \/ ResendBegin(r) \/ RenameBegin(r) \/ RemoveBegin(r)

Next ==
    \/ \E r \in Slots : Call(r) \/ Handler(r) \/ Kill(r)
    \/ \E c \in Clients : AccessAges(c)
    \/ GoogleStart \/ RequestReset

Spec == Init /\ [][Next]_vars

(***************************************************************************)
(* Properties.                                                             *)
(***************************************************************************)
Access  == [id : Nat, user : Ids]
Refresh == [id : Nat, user : Ids, prev : Nat]

TypeOK ==
    /\ users \in [Ids -> User] /\ nextUser \in Nat /\ kit \in [Ids -> 0..4]
    /\ access \subseteq Access /\ refresh \subseteq Refresh /\ nextId \in Nat
    /\ verifs \subseteq [id : Nat, user : Ids, to : Emails \cup {Synthetic}, used : BOOLEAN]
    /\ resets \subseteq [id : Nat, user : Ids, used : BOOLEAN]
    /\ states \in Nat /\ codes \subseteq [client : Clients, user : Ids, pair : Pair]
    /\ jar \in [Clients -> Pair] /\ kept \in [Clients -> SUBSET Nat]
    /\ req \in [Slots -> Request]
    /\ calls \in Nat /\ errors \in Nat /\ kills \in Nat
    /\ closed \subseteq Ids /\ proven \in [Ids -> SUBSET (Emails \cup {Synthetic})]
    /\ purged \subseteq Nat /\ cutoff \in [Ids -> Nat] /\ torn \subseteq Clients
    /\ contested \subseteq ({"email"} \X Emails) \cup ({"name"} \X Names)

\* An account is created as a whole or not at all, even when the database
\* fails in the middle: once its handler is through, a user that exists has
\* inventory, loadout, wallet and welcome note, and of one that does not
\* nothing is left, unless its owner removed it (add_user, create_guest_session
\* and _find_or_create_user each roll back on their own).
Building(u) == \E r \in Slots : req[r].user = u /\ req[r].handler \in Provisioning
AllOrNothing ==
    \A u \in Ids : u < nextUser /\ ~Building(u) =>
        IF Live(u) THEN kit[u] = 4 ELSE u \in closed \/ kit[u] = 0

\* A verified address was shown to belong to the client: somebody who reads it
\* presented its token, or Google vouched for it.  An upgrade changes the
\* address while tokens sent earlier stay valid; that is harmless as long as
\* the address before was a guest's, so no account may be upgraded twice.  Two
\* upgrades of one guest at once would, and are outside the run.
VerifiedIsOwned == \A u \in Ids : Live(u) /\ users[u].verified => users[u].email \in proven[u]

\* An address or a username belongs to one account, unless two requests for
\* different accounts had both found it free before either wrote it: no
\* rollback, removal, renaming, Google callback, error or kill is another way
\* to two owners, nor is a lookup that finds one of two (add_user,
\* _find_or_create_user, upgrade_guest_to_user and update_user_by_id look first
\* and write later, and no index is unique).
Owned(u) == IF Live(u) THEN Tagged(users[u].email, users[u].name) ELSE {}
OneOwnerEach == \A u, w \in Ids : u # w => Owned(u) \cap Owned(w) \subseteq contested

\* A guest keeps its handle until it is a full account (guest.md, "Renaming").
GuestKeepsHandle ==
    [][\A u \in Ids : Live(u) /\ users[u].guest /\ users'[u].name # users[u].name =>
          ~users'[u].guest]_vars

\* A browser never loses its session by using it: whatever refreshes, logins,
\* exchanges and logouts of its tabs cross, once they are through the refresh
\* cookie names a token that is stored, unless all sessions of the user were
\* ended or a request was killed.
SessionSurvives ==
    \A c \in Clients :
        (\A r \in Slots : Client(r) = c => At(r, "idle")) /\ c \notin torn =>
            LET t == jar[c].refresh IN t = 0 \/ t \in purged \/ \E k \in refresh : k.id = t

\* When a reset, an upgrade or a removal is through, no token is left that was
\* issued before the user was changed (readme.md, "all sessions invalidated";
\* guest.md, "Invalidates every prior token"), whatever requests were in flight.
PurgeIsComplete == \A t \in access \cup refresh : t.id >= cutoff[t.user]
=============================================================================
