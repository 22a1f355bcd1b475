---------------------------- MODULE ProfileMedia ----------------------------
(***************************************************************************)
(* Profile pictures and clips: an upload stores a new object in the bucket *)
(* (Cloudflare R2), points the profile at it and then deletes the object   *)
(* the profile named before.  The bucket and the database know nothing of  *)
(* each other, and an object is deleted only by the upload that replaces   *)
(* it.  Requests refused for what they carry (extension, content type,     *)
(* size) change nothing and are left out.                                  *)
(***************************************************************************)
EXTENDS Requests

VARIABLES
    bucket,      \* the stored objects, by key and by the user the key names
    media,       \* users.profile_media_storage_key; 0 is none
    nextKey,     \* the next storage key: _build_storage_key repeats none
    upload       \* the request in each slot

\* History of the behaviour; no action reads it.
VARIABLE
    messy        \* users with overlapping, failed or killed uploads

mediaVars == <<bucket, media, nextKey, upload, messy>>

Object == [key : Nat, user : Users]
Upload == [pc : {"idle", "put", "point", "delete"}, by : Users \cup {0},
           key : Nat,        \* storage_key
           old : Nat]        \* previous_storage_key
NoUpload == [pc |-> "idle", by |-> 0, key |-> 0, old |-> 0]

UploadAt(r, label)   == upload[r].pc = label
UploadStep(r, q)     == upload' = [upload EXCEPT ![r] = q]
UploadGoto(r, label) == UploadStep(r, [upload[r] EXCEPT !.pc = label])
UploadEnd(r)         == UploadStep(r, NoUpload)
UploadsOf(u)         == {r \in Slots : ~UploadAt(r, "idle") /\ upload[r].by = u}

MediaInit ==
    /\ bucket = {} /\ media = [u \in Users |-> 0] /\ nextKey = 1
    /\ upload = [r \in Slots |-> NoUpload]
    /\ messy = {}

\* The profile as it is before the upload; the key is made without asking anybody.
UploadBegin(r) ==
    /\ UploadAt(r, "idle")
    /\ Serve("upload")
    /\ \E u \in alive :
          /\ UploadStep(r, [pc |-> "put", by |-> u, key |-> nextKey, old |-> media[u]])
          /\ messy' = IF UploadsOf(u) = {} THEN messy ELSE messy \cup {u}
    /\ nextKey' = nextKey + 1
    /\ UNCHANGED <<bucket, media>>

Store(r) == bucket' = bucket \cup {[key |-> upload[r].key, user |-> upload[r].by]}

\* Fault: the object the profile names is replaced in the bucket first.
PutInPlace(r) ==
    /\ UploadAt(r, "put")
    /\ bucket' = {o \in bucket : o.key # upload[r].old}
                 \cup {[key |-> upload[r].key, user |-> upload[r].by]}
    /\ UploadGoto(r, "point")
    /\ UNCHANGED <<media, nextKey, messy, calls>>

\* 502 when the call fails, which an object that was stored does not undo.
PutObject(r) ==
    /\ UploadAt(r, "put")
    /\ \/ Store(r) /\ UploadGoto(r, "point") /\ UNCHANGED messy
       \/ /\ Store(r) \/ UNCHANGED bucket
          /\ UploadEnd(r)
          /\ messy' = messy \cup {upload[r].by}
    /\ UNCHANGED <<media, nextKey, calls>>

\* 404 when the account has been removed meanwhile; the object stays.
PointProfile(r) ==
    /\ UploadAt(r, "point")
    /\ LET q == upload[r] IN
          \/ /\ q.by \in alive
             /\ media' = [media EXCEPT ![q.by] = q.key]
             /\ IF q.old # 0 THEN UploadGoto(r, "delete") ELSE UploadEnd(r)
          \/ /\ q.by \notin alive
             /\ UploadEnd(r)
             /\ UNCHANGED media
    /\ UNCHANGED <<bucket, nextKey, messy, calls>>

\* Fault: the previous object is looked for under the new key.
DeleteNothing(r) ==
    /\ UploadAt(r, "delete")
    /\ UploadEnd(r)
    /\ UNCHANGED <<bucket, media, nextKey, messy, calls>>

\* A failure is logged and that is all.
DeleteOld(r) ==
    /\ UploadAt(r, "delete")
    /\ \/ bucket' = {o \in bucket : o.key # upload[r].old} /\ UNCHANGED messy
       \/ messy' = messy \cup {upload[r].by} /\ UNCHANGED bucket
    /\ UploadEnd(r)
    /\ UNCHANGED <<media, nextKey, calls>>

\* Killed in the middle of a call to the bucket or between two.
KillUpload(r) ==
    /\ ~UploadAt(r, "idle")
    /\ Die
    /\ \/ UploadAt(r, "put") /\ Store(r)
       \/ UNCHANGED bucket
    /\ messy' = messy \cup {upload[r].by}
    /\ UploadEnd(r)
    /\ UNCHANGED <<media, nextKey>>

MediaStep(r) ==
    UploadBegin(r) \/ PutObject(r) \/ PointProfile(r) \/ DeleteOld(r) \/ KillUpload(r)

MediaNext == (\E r \in Slots : MediaStep(r)) /\ UNCHANGED accounts

(***************************************************************************)
(* Properties.                                                             *)
(***************************************************************************)
MediaOK ==
    /\ bucket \subseteq Object /\ media \in [Users -> Nat] /\ nextKey \in Nat
    /\ upload \in [Slots -> Upload]
    /\ messy \subseteq Users

\* A profile never names an object that is gone: each upload deletes only what
\* it has replaced, so two uploads that read the same previous key, failed
\* calls and killed workers leave objects behind but break no profile.
NeverDangling ==
    \A u \in Users : media[u] # 0 => [key |-> media[u], user |-> u] \in bucket

\* Objects do not pile up by themselves: a user whose uploads never overlapped,
\* failed or were killed has in the bucket, between uploads, what the profile
\* names and nothing else.
OneObject ==
    \A u \in alive \ messy : UploadsOf(u) = {} =>
        {o.key : o \in {p \in bucket : p.user = u}} \subseteq {media[u]}
=============================================================================
