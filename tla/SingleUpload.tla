---------------------------- MODULE SingleUpload ----------------------------
(***************************************************************************)
(* The upload of a recording in one request (remote_gateway.py): its       *)
(* Idempotency-Key is claimed in the gateway's database before the body is *)
(* read, and completed after the import into the library, which is in      *)
(* another database.  One body is received at a time.                      *)
(*                                                                         *)
(* Each key belongs to an identity of its own, and all of them upload the  *)
(* same bytes, which is when they meet.  What the requests do between two  *)
(* awaits is one step.  Fingerprints, sizes and the kinds of refusals are  *)
(* left out.                                                               *)
(***************************************************************************)
EXTENDS Naturals, Sequences

CONSTANTS Key,
          Asker,      \* requests under way at a time
          MaxMedia    \* bounds how often the bytes are imported

ASSUME KeyAssumption == "local" \notin Key /\ MaxMedia \in Nat

VARIABLES claims,     \* [Key -> its row of remote_uploads, see ClaimType]
          asked,      \* [Asker -> where its request is, see AskedType]
          present,    \* the recording with these bytes in the library, or 0
          by,         \* who imported each recording so far
          answers,    \* [Key -> the recording of the last 201 or 200]
          overtaken,  \* history: the keys whose claim got old under a request
          unfinished  \* history: the recordings whose completion was cut off

uploadVars == <<claims, asked, present, by, answers, overtaken, unfinished>>
histories == <<answers, overtaken, unfinished>>

Copy == 1 .. MaxMedia

\* old: claimed STALE_CLAIM_SECONDS ago
ClaimType == [state : {"none", "receiving", "importing", "completed"},
              old : BOOLEAN, rec : {0} \cup Copy]
NoClaim == [state |-> "none", old |-> FALSE, rec |-> 0]
FreshClaim == [state |-> "receiving", old |-> FALSE, rec |-> 0]

Locked == {"body", "check", "mark", "import", "complete", "release"}
NoRequest == [at |-> "idle", key |-> "local", rec |-> 0]
AskedType == {NoRequest} \cup [at : Locked \cup {"verify", "reclaim", "wait"},
                          key : Key, rec : {0} \cup Copy]

SingleTypeOK ==
    /\ claims \in [Key -> ClaimType] /\ asked \in [Asker -> AskedType]
    /\ present \in {0} \cup Copy
    /\ by \in Seq(Key \cup {"local"}) /\ Len(by) <= MaxMedia
    /\ answers \in [Key -> {0} \cup Copy]
    /\ overtaken \subseteq Key /\ unfinished \subseteq Copy

SingleInit ==
    /\ claims = [k \in Key |-> NoClaim]
    /\ asked = [a \in Asker |-> NoRequest]
    /\ present = 0 /\ by = <<>> /\ answers = [k \in Key |-> 0]
    /\ overtaken = {} /\ unfinished = {}

RequestGoes(a, at) == asked' = [asked EXCEPT ![a].at = at]
RequestEnds(a) == asked' = [asked EXCEPT ![a] = NoRequest]
Sets(k, c) == claims' = [claims EXCEPT ![k] = c]
Library == <<present, by>>

-----------------------------------------------------------------------------
(* Before the body: claim_upload, and the look after a crash.              *)

ClaimsUpload(a, k) ==
    LET c == claims[k] IN
    /\ asked[a].at = "idle"
    /\ \/ /\ c.state = "none" \/ (c.state = "receiving" /\ c.old)
          /\ Sets(k, FreshClaim)
          /\ asked' = [asked EXCEPT ![a] = [at |-> "wait", key |-> k, rec |-> 0]]
          /\ UNCHANGED answers
       \/ /\ c.state = "importing" /\ c.old
          /\ asked' = [asked EXCEPT ![a] = [at |-> "verify", key |-> k, rec |-> 0]]
          /\ UNCHANGED <<claims, answers>>
       \/ /\ c.state = "completed" /\ present = c.rec   \* otherwise 410
          /\ answers' = [answers EXCEPT ![k] = c.rec]
          /\ UNCHANGED <<claims, asked>>
    /\ UNCHANGED <<Library, overtaken, unfinished>>

\* The import of an old claim may have succeeded, but whose it is cannot be told.
Verifies(a) ==
    /\ asked[a].at = "verify"
    /\ IF present # 0 THEN RequestEnds(a) ELSE RequestGoes(a, "reclaim")
    /\ UNCHANGED <<claims, Library, histories>>

\* reclaim_stale_import
Reclaims(a) ==
    LET c == claims[asked[a].key] IN
    /\ asked[a].at = "reclaim"
    /\ IF c.state = "importing" /\ c.old
       THEN Sets(asked[a].key, FreshClaim) /\ RequestGoes(a, "wait")
       ELSE RequestEnds(a) /\ UNCHANGED claims
    /\ UNCHANGED <<Library, histories>>

-----------------------------------------------------------------------------
(* Under upload_lock.                                                      *)

TakesLock(a) ==
    /\ asked[a].at = "wait" /\ \A b \in Asker : asked[b].at \notin Locked
    /\ RequestGoes(a, "body")
    /\ UNCHANGED <<claims, Library, histories>>

ReceivesBody(a) ==
    /\ asked[a].at = "body" /\ RequestGoes(a, "check")
    /\ UNCHANGED <<claims, Library, histories>>

FindsDuplicate(a) ==
    /\ asked[a].at = "check"
    /\ RequestGoes(a, IF present # 0 THEN "release" ELSE "mark")
    /\ UNCHANGED <<claims, Library, histories>>

\* mark_importing, which says nothing of a claim that is gone
MarksImporting(a) ==
    LET k == asked[a].key IN
    /\ asked[a].at = "mark"
    /\ claims' = IF claims[k].state = "receiving"
                 THEN [claims EXCEPT ![k] = [state |-> "importing", old |-> FALSE, rec |-> 0]]
                 ELSE claims
    /\ RequestGoes(a, "import")
    /\ UNCHANGED <<Library, histories>>

Imports(who) ==
    /\ present = 0 /\ Len(by) < MaxMedia
    /\ by' = Append(by, who) /\ present' = Len(by) + 1

ImportsMedia(a) ==
    /\ asked[a].at = "import"
    /\ Imports(asked[a].key)
    /\ asked' = [asked EXCEPT ![a] = [at |-> "complete", key |-> asked[a].key, rec |-> present']]
    /\ UNCHANGED <<claims, histories>>

\* complete_upload and the answer 201
CompletesUpload(a) ==
    LET k == asked[a].key
        n == asked[a].rec IN
    /\ asked[a].at = "complete" /\ claims[k].state # "none"
    /\ \A o \in Key \ {k} : ~(claims[o].state = "completed" /\ claims[o].rec = n)
    /\ Sets(k, [state |-> "completed", old |-> FALSE, rec |-> n])
    /\ answers' = [answers EXCEPT ![k] = n]
    /\ RequestEnds(a) /\ UNCHANGED <<Library, overtaken, unfinished>>

\* The claim is gone: 409, although the media is in the library.
FindsNoClaim(a) ==
    /\ asked[a].at = "complete" /\ claims[asked[a].key].state = "none"
    /\ RequestGoes(a, "release")
    /\ UNCHANGED <<claims, Library, histories>>

\* No space, a body that breaks off, media that cannot be read, a duplicate, or
\* a database that is busy
UploadFails(a) ==
    /\ asked[a].at \in Locked \ {"release"} /\ RequestGoes(a, "release")
    /\ unfinished' = IF asked[a].at = "complete" THEN unfinished \cup {asked[a].rec} ELSE unfinished
    /\ UNCHANGED <<claims, Library, answers, overtaken>>

\* Mutant of AfterRelease: the failure of a request takes away the key for good.
AfterAnyRelease(c) == NoClaim

\* release_upload
AfterRelease(c) == IF c.state = "completed" THEN c ELSE NoClaim

ReleasesUpload(a) ==
    /\ asked[a].at = "release"
    /\ Sets(asked[a].key, AfterRelease(claims[asked[a].key]))
    /\ RequestEnds(a) /\ UNCHANGED <<Library, histories>>

-----------------------------------------------------------------------------
(* Time, the notebook's own user, and crashes.                             *)

ClaimGetsOld(k) ==
    /\ claims[k].state \in {"receiving", "importing"} /\ ~claims[k].old
    /\ claims' = [claims EXCEPT ![k].old = TRUE]
    /\ overtaken' = IF \E a \in Asker : asked[a].key = k /\ asked[a].at # "idle"
                    THEN overtaken \cup {k} ELSE overtaken
    /\ UNCHANGED <<asked, Library, answers, unfinished>>

LocalImport == Imports("local") /\ UNCHANGED <<claims, asked, histories>>

LocalDelete ==
    /\ present # 0 /\ present' = 0
    /\ UNCHANGED <<claims, asked, by, histories>>

GatewayDies ==
    /\ asked' = [a \in Asker |-> NoRequest]
    /\ unfinished' = unfinished \cup {asked[a].rec : a \in {b \in Asker : asked[b].at = "complete"}}
    /\ UNCHANGED <<claims, Library, answers, overtaken>>

SingleNext ==
    \/ \E a \in Asker, k \in Key : ClaimsUpload(a, k)
    \/ \E a \in Asker : \/ Verifies(a) \/ Reclaims(a) \/ TakesLock(a) \/ ReceivesBody(a)
                        \/ FindsDuplicate(a) \/ MarksImporting(a) \/ ImportsMedia(a)
                        \/ CompletesUpload(a) \/ FindsNoClaim(a) \/ UploadFails(a)
                        \/ ReleasesUpload(a)
    \/ \E k \in Key : ClaimGetsOld(k)
    \/ LocalImport \/ LocalDelete \/ GatewayDies

SingleSpec == SingleInit /\ [][SingleNext]_uploadVars

-----------------------------------------------------------------------------
(* Properties.                                                             *)

\* Nobody owns what another one uploaded (the comment at "verify").
OwnersUploadedIt ==
    \A k \in Key : claims[k].state = "completed" => by[claims[k].rec] = k

\* A recording that was confirmed stays its uploader's as long as it exists.
AnswersStand ==
    \A k \in Key : answers[k] # 0 /\ present = answers[k] =>
        claims[k].state = "completed" /\ claims[k].rec = answers[k]

\* What is uploaded gets its owner.  Otherwise the completion was cut off by an
\* error or a crash, or the key was claimed again while a request was still at
\* work on an old claim, whose failure then took the newer claim away.
ImportsAreOwned ==
    \A n \in DOMAIN by :
        \/ by[n] = "local" \/ n \in unfinished \/ by[n] \in overtaken
        \/ n # present
        \/ claims[by[n]].state = "completed" /\ claims[by[n]].rec = n
        \/ \E a \in Asker : asked[a].at = "complete" /\ asked[a].rec = n

\* However requests, retries, old claims, crashes and the notebook's own user
\* interleave, uploads and their owners agree.
UploadsAreOwned == OwnersUploadedIt /\ AnswersStand /\ ImportsAreOwned
=============================================================================
