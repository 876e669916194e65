---------------------------- MODULE LibraryPage -----------------------------
(***************************************************************************)
(* The library of the local web page (web/app.js): its list of recordings, *)
(* which loads replace and which uploads and deletions of the page change, *)
(* and the search that narrows it.                                         *)
(*                                                                         *)
(* A load is asked for at the start, by the button, and whenever the       *)
(* network is back, also while the user is at work.  What handlers do up   *)
(* to their next await is one step; answers arrive in any order.  The      *)
(* filter by subject and what a row shows are left out.                    *)
(***************************************************************************)
EXTENDS Naturals

CONSTANTS Recording, Query,
          MaxLoads,     \* bound: loads asked for
          MaxSearches   \* bound: searches submitted or cleared; one change of a recording at a time

ASSUME LibraryPageAssumption == MaxLoads \in Nat /\ MaxSearches \in Nat

VARIABLES library,   \* [Recording -> its life at the server]
          listed,    \* [Recording -> how often state.recordings has it]
          reads,     \* [load -> under way, and what the server answered]
          newestLoad,    \* loadRequest.generation
          changing,  \* [Recording -> the page's upload or deletion under way]
          subjects,  \* state.subjects has one
          ready,     \* upload-submit is enabled
          dialog,    \* the recording of the delete dialog, when it is open
          searches,  \* [search -> its query, under way, and what was found]
          newestSearch,  \* searchRequest.generation
          box,       \* what the search box says
          results,   \* state.searchResults, and the search they are of
          crossed,   \* history: since the newest load was asked for, the library changed
          stale      \* history: the list is from such a load, or misses another's change

listVars == <<library, listed, reads, newestLoad, changing, subjects, ready, dialog, crossed,
              stale>>
upload == <<subjects, ready>>
searchVars == <<searches, newestSearch, box, results>>
libraryVars == <<listVars, searchVars>>

Empty == "empty"   \* the box, when it is
Load == 1 .. MaxLoads
Search == 1 .. MaxSearches
Present == {r \in Recording : library[r] = "present"}

NoRead == [at |-> "over", seen |-> {}]
NoSearch == [at |-> "over", query |-> Empty, found |-> {}]
NoResults == [of |-> 0, found |-> {}]

LibraryPageTypeOK ==
    /\ library \in [Recording -> {"new", "present", "deleted"}]
    /\ listed \in [Recording -> 0..2]
    /\ reads \in [Load -> [at : {"over", "asked", "served"}, seen : SUBSET Recording]]
    /\ newestLoad \in 0..MaxLoads
    /\ changing \in [Recording -> {"no", "uploading", "uploaded", "deleting", "removed"}]
    /\ subjects \in BOOLEAN /\ ready \in BOOLEAN
    /\ dialog \in Recording \cup {Empty}
    /\ searches \in [Search -> [at : {"over", "asked", "served"}, query : Query \cup {Empty},
                                found : SUBSET Recording]]
    /\ newestSearch \in 0..MaxSearches /\ box \in Query \cup {Empty}
    /\ results \in [of : 0..MaxSearches, found : SUBSET Recording]
    /\ crossed \in BOOLEAN /\ stale \in BOOLEAN

LibraryPageInit ==
    /\ library \in [Recording -> {"new", "present"}]
    /\ listed = [r \in Recording |-> 0] /\ dialog = Empty
    /\ subjects = FALSE /\ ready = FALSE
    /\ reads = [n \in Load |-> NoRead] /\ newestLoad = 0
    /\ changing = [r \in Recording |-> "no"]
    /\ searches = [n \in Search |-> NoSearch] /\ newestSearch = 0
    /\ box = Empty /\ results = NoResults
    /\ crossed = FALSE /\ stale = TRUE

-----------------------------------------------------------------------------
(* LatestRequest.                                                          *)

\* Mutant of IsNewest: an answer is taken whatever was asked for since.
TakesAny(n, newest) == TRUE

IsNewest(n, newest) == n = newest

Loading == newestLoad # 0 /\ reads[newestLoad].at # "over"
Changing == \E r \in Recording : changing[r] # "no"

-----------------------------------------------------------------------------
(* loadAll.                                                                *)

AsksLoad ==
    /\ newestLoad < MaxLoads /\ newestLoad' = newestLoad + 1
    /\ reads' = [reads EXCEPT ![newestLoad'] = [at |-> "asked", seen |-> {}]]
    /\ crossed' = Changing
    /\ UNCHANGED <<library, listed, changing, upload, dialog, stale, searchVars>>

LoadIsServed(n) ==
    /\ reads[n].at = "asked"
    /\ reads' = [reads EXCEPT ![n] = [at |-> "served", seen |-> Present]]
    /\ UNCHANGED <<library, listed, newestLoad, changing, upload, dialog, crossed, stale,
                   searchVars>>

\* renderSubjectOptions, also while an upload is under way
RendersSubjects(known) == subjects' = known /\ ready' = known

LoadEnds(n) ==
    /\ reads' = [reads EXCEPT ![n] = NoRead]
    /\ UNCHANGED <<library, newestLoad, changing, dialog, crossed, searchVars>>

\* the recordings or the subjects may have failed by themselves
LoadIsAnswered(n) ==
    /\ reads[n].at # "over" /\ IsNewest(n, newestLoad) /\ LoadEnds(n)
    /\ \/ /\ reads[n].at = "served" /\ stale' = crossed
          /\ listed' = [r \in Recording |-> IF r \in reads[n].seen THEN 1 ELSE 0]
       \/ listed' = [r \in Recording |-> 0] /\ stale' = TRUE
    /\ \E known \in BOOLEAN : RendersSubjects(known)

\* health failed: what was there stays
LoadFails(n) ==
    /\ reads[n].at # "over" /\ IsNewest(n, newestLoad) /\ LoadEnds(n)
    /\ UNCHANGED <<listed, stale>> /\ RendersSubjects(subjects)

LoadIsLate(n) ==
    /\ reads[n].at # "over" /\ ~IsNewest(n, newestLoad) /\ LoadEnds(n)
    /\ UNCHANGED <<listed, stale, upload>>

SubjectIsCreated ==
    /\ RendersSubjects(TRUE)
    /\ UNCHANGED <<library, listed, reads, newestLoad, changing, dialog, crossed, stale,
                   searchVars>>

-----------------------------------------------------------------------------
(* Uploading and deleting.                                                 *)

ChangeIs(r, at) == changing' = [changing EXCEPT ![r] = at]
NowIs(r, life) == library' = [library EXCEPT ![r] = life]

Uploads(r) ==
    /\ ready /\ ready' = FALSE
    /\ library[r] = "new" /\ changing[r] = "no" /\ ChangeIs(r, "uploading") /\ crossed' = TRUE
    /\ UNCHANGED <<library, listed, reads, newestLoad, subjects, dialog, stale, searchVars>>

IsImported(r) ==
    /\ changing[r] = "uploading" /\ library[r] = "new"
    /\ ChangeIs(r, "uploaded") /\ NowIs(r, "present")
    /\ UNCHANGED <<listed, reads, newestLoad, upload, dialog, crossed, stale, searchVars>>

\* unshift, whatever a load has put on the list meanwhile; results are dropped
UploadIsAnswered(r) ==
    /\ changing[r] = "uploaded" /\ ChangeIs(r, "no")
    /\ listed' = [listed EXCEPT ![r] = @ + 1]
    /\ results' = NoResults
    /\ RendersSubjects(subjects)
    /\ UNCHANGED <<library, reads, newestLoad, dialog, crossed, stale,
                   searches, newestSearch, box>>

\* visibleRecordings: the rows, each with its buttons
Visible == {r \in Recording : listed[r] > 0 /\ (results.of # 0 => r \in results.found)}

OpensDeleteDialog(r) ==
    /\ dialog = Empty /\ r \in Visible /\ dialog' = r
    /\ UNCHANGED <<library, listed, reads, newestLoad, changing, upload, crossed, stale,
                   searchVars>>

\* also while the deletion is under way
ClosesDeleteDialog ==
    /\ dialog # Empty /\ dialog' = Empty
    /\ UNCHANGED <<library, listed, reads, newestLoad, changing, upload, crossed, stale,
                   searchVars>>

\* confirm-delete is disabled while a deletion is under way
ConfirmsDelete(r) ==
    /\ dialog = r /\ \A s \in Recording : changing[s] \notin {"deleting", "removed"}
    /\ changing[r] = "no" /\ ChangeIs(r, "deleting") /\ crossed' = TRUE
    /\ UNCHANGED <<library, listed, reads, newestLoad, upload, dialog, stale, searchVars>>

IsRemoved(r) ==
    /\ changing[r] = "deleting" /\ library[r] = "present"
    /\ ChangeIs(r, "removed") /\ NowIs(r, "deleted")
    /\ UNCHANGED <<listed, reads, newestLoad, upload, dialog, crossed, stale, searchVars>>

\* closes whatever dialog is open by now
DeleteIsAnswered(r) ==
    /\ changing[r] = "removed" /\ ChangeIs(r, "no") /\ dialog' = Empty
    /\ listed' = [listed EXCEPT ![r] = 0]
    /\ RendersSubjects(subjects)
    /\ UNCHANGED <<library, reads, newestLoad, crossed, stale, searchVars>>

\* refused, or the answer is lost with or without the change
ChangeFails(r) ==
    /\ changing[r] # "no" /\ ChangeIs(r, "no")
    /\ IF changing[r] \in {"uploading", "uploaded"} THEN RendersSubjects(subjects)
                                                    ELSE UNCHANGED upload
    /\ stale' = (stale \/ changing[r] \in {"uploaded", "removed"})
    /\ UNCHANGED <<library, listed, reads, newestLoad, dialog, crossed, searchVars>>

\* The phone, the command line, another window, or a request given up here
OthersChange(r) ==
    /\ \/ library[r] = "new" /\ changing[r] = "no" /\ NowIs(r, "present")
       \/ library[r] = "present" /\ NowIs(r, "deleted")
    /\ crossed' = TRUE /\ stale' = TRUE
    /\ UNCHANGED <<listed, reads, newestLoad, changing, upload, dialog, searchVars>>

-----------------------------------------------------------------------------
(* Searching.                                                              *)

TypesQuery(q) ==
    /\ box # q /\ box' = q
    /\ UNCHANGED <<listVars, searches, newestSearch, results>>

Submits ==
    /\ box # Empty /\ newestSearch < MaxSearches /\ newestSearch' = newestSearch + 1
    /\ searches' = [searches EXCEPT ![newestSearch'] =
                       [at |-> "asked", query |-> box, found |-> {}]]
    /\ UNCHANGED <<listVars, box, results>>

\* The search event of an emptied box, an empty submission, or "Ver aulas"
ClearsSearch ==
    /\ newestSearch < MaxSearches /\ newestSearch' = newestSearch + 1
    /\ box' = Empty /\ results' = NoResults
    /\ UNCHANGED <<listVars, searches>>

SearchIsServed(n) ==
    /\ searches[n].at = "asked"
    /\ \E found \in SUBSET Present :
          searches' = [searches EXCEPT ![n].at = "served", ![n].found = found]
    /\ UNCHANGED <<listVars, newestSearch, box, results>>

SearchIsAnswered(n) ==
    /\ searches[n].at = "served" /\ searches' = [searches EXCEPT ![n].at = "over"]
    /\ results' = IF IsNewest(n, newestSearch) /\ box = searches[n].query
                  THEN [of |-> n, found |-> searches[n].found] ELSE results
    /\ UNCHANGED <<listVars, newestSearch, box>>

SearchFails(n) ==
    /\ searches[n].at # "over" /\ searches' = [searches EXCEPT ![n].at = "over"]
    /\ UNCHANGED <<listVars, newestSearch, box, results>>

-----------------------------------------------------------------------------
LibraryPageNext ==
    \/ AsksLoad \/ SubjectIsCreated \/ ClosesDeleteDialog
    \/ \E n \in Load : \/ LoadIsServed(n) \/ LoadIsAnswered(n)
                       \/ LoadFails(n) \/ LoadIsLate(n)
    \/ \E r \in Recording : \/ Uploads(r) \/ IsImported(r) \/ UploadIsAnswered(r)
                            \/ OpensDeleteDialog(r) \/ ConfirmsDelete(r) \/ IsRemoved(r)
                            \/ DeleteIsAnswered(r) \/ ChangeFails(r) \/ OthersChange(r)
    \/ \E q \in Query \cup {Empty} : TypesQuery(q)
    \/ Submits \/ ClearsSearch
    \/ \E n \in Search : SearchIsServed(n) \/ SearchIsAnswered(n) \/ SearchFails(n)

LibraryPageSpec == LibraryPageInit /\ [][LibraryPageNext]_libraryVars

-----------------------------------------------------------------------------
(* Properties.                                                             *)

\* But for what is being uploaded or deleted, the page lists what the library
\* has, once, unless the library changed while the list was loaded, somebody
\* else changed it since, or the answer to a change was lost.
ListIsTrue ==
    ~stale => \A r \in Recording :
        changing[r] = "no" => listed[r] = IF r \in Present THEN 1 ELSE 0

\* Results were found for a query that was submitted after the search was
\* cleared for the last time, however late their answer came.
NothingClearedIsShown ==
    \A n \in Search : results.of # 0 /\ results.of < n /\ n <= newestSearch
                      => searches[n].query # Empty

\* List and search of the library show what they should.
LibraryIsShown == ListIsTrue /\ NothingClearedIsShown
=============================================================================
