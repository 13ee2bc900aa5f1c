------------------------------- MODULE CaseCovers ------------------------------
(***************************************************************************)
(* The update of a case (update-case.use-case.ts), of which the cover      *)
(* lives in three places: an object in storage, its URL in the row, and    *)
(* the row's copy in the cache of the public API.  A new cover is put      *)
(* under a new key, the row is updated in a transaction, the copy dropped, *)
(* and only then the object deleted that the row had before.  Without a    *)
(* new cover the row gets the URL that the admin's form was opened with.   *)
(***************************************************************************)
EXTENDS Integers

CONSTANTS
    Updates,        \* requests to update the case that may be underway
    MaxUploads,     \* bound: new covers in a behaviour
    MaxCaseCalls,   \* bound: updates in a behaviour
    MaxCaseFaults   \* bound: failing transactions, caches, deletions; restarts

ASSUME CoverAssumption == {MaxUploads, MaxCaseCalls, MaxCaseFaults} \subseteq Nat

VARIABLES
    cover,          \* Case.imageUrl
    objects,        \* the covers in storage
    forms,          \* the covers that forms still open were opened with
    caseCopy,       \* cache:cases:detail, the cover in it
    caseLoad,        \* what a load of the public API has read and not yet cached
    updating,       \* updating[r]: the request and where it is
    staleCover,     \* ghost: the row's cover was saved from an old form
    staleCopy,      \* ghost: the copy is of a stale row, or of one that had
                    \*   changed when it was cached, or was not dropped
    uploads, caseCalls, caseFaults

coverVars == <<cover, objects, forms, caseCopy, caseLoad, updating, staleCover, staleCopy,
               uploads, caseCalls, caseFaults>>

Covers == 0..MaxUploads     \* numbered in the order of their upload
NoCover == -1

NoUpdate == [at |-> "idle", replaces |-> FALSE, previous |-> NoCover, url |-> NoCover]
UpdateSteps == {"idle", "find", "put", "commit", "invalidate", "delete"}

CoverTypeOK ==
    /\ cover \in Covers
    /\ objects \in SUBSET Covers
    /\ forms \in SUBSET Covers
    /\ {caseCopy, caseLoad} \subseteq Covers \cup {NoCover}
    /\ updating \in [Updates -> [at : UpdateSteps, replaces : BOOLEAN,
                                 previous : Covers \cup {NoCover},
                                 url : Covers \cup {NoCover}]]
    /\ {staleCover, staleCopy} \subseteq BOOLEAN
    /\ uploads \in Covers
    /\ caseCalls \in 0..MaxCaseCalls
    /\ caseFaults \in 0..MaxCaseFaults

\* A case that was created with a cover.
CoverInit ==
    /\ cover = 0
    /\ objects = {0}
    /\ forms = {0}
    /\ caseCopy = NoCover
    /\ caseLoad = NoCover
    /\ updating = [r \in Updates |-> NoUpdate]
    /\ staleCover = FALSE
    /\ staleCopy = FALSE
    /\ uploads = 0
    /\ caseCalls = 0
    /\ caseFaults = 0

\* An admin opens the form: it keeps the row's URL.
OpenForm ==
    /\ cover \notin forms
    /\ forms' = forms \cup {cover}
    /\ UNCHANGED <<cover, objects, caseCopy, caseLoad, updating, staleCover, staleCopy,
                   uploads, caseCalls, caseFaults>>

\* A form is sent, with a file for a new cover or without.
BeginUpdate(r) == \E url \in forms, replaces \in BOOLEAN :
    /\ updating[r].at = "idle"
    /\ caseCalls < MaxCaseCalls
    /\ caseCalls' = caseCalls + 1
    /\ updating' = [updating EXCEPT ![r] = [at |-> "find", replaces |-> replaces,
                                            previous |-> NoCover, url |-> url]]
    /\ UNCHANGED <<cover, objects, forms, caseCopy, caseLoad, staleCover, staleCopy,
                   uploads, caseFaults>>

FindCase(r) ==
    /\ updating[r].at = "find"
    /\ updating' = [updating EXCEPT
                      ![r].previous = cover,
                      ![r].at = IF updating[r].replaces THEN "put" ELSE "commit"]
    /\ UNCHANGED <<cover, objects, forms, caseCopy, caseLoad, staleCover, staleCopy,
                   uploads, caseCalls, caseFaults>>

PutObject(r) ==
    /\ updating[r].at = "put"
    /\ uploads < MaxUploads
    /\ uploads' = uploads + 1
    /\ objects' = objects \cup {uploads'}
    /\ updating' = [updating EXCEPT ![r].url = uploads', ![r].at = "commit"]
    /\ UNCHANGED <<cover, forms, caseCopy, caseLoad, staleCover, staleCopy,
                   caseCalls, caseFaults>>

\* The order of the code, and one that cleans up before it tells the cache.
DeleteFirst(r) == IF updating[r].replaces THEN "delete" ELSE "invalidate"
AfterCommit(r) == "invalidate"

CommitCase(r) ==
    /\ updating[r].at = "commit"
    /\ cover' = updating[r].url
    /\ staleCover' = IF updating[r].replaces THEN FALSE
                     ELSE staleCover \/ updating[r].url # cover
    /\ updating' = [updating EXCEPT ![r].at = AfterCommit(r)]
    /\ UNCHANGED <<objects, forms, caseCopy, caseLoad, staleCopy,
                   uploads, caseCalls, caseFaults>>

\* The transaction rolls back, because an item to be removed has been won, or
\* because the database fails; the object that was put stays.
CommitFails(r) ==
    /\ updating[r].at \in {"find", "put", "commit"}
    /\ caseFaults < MaxCaseFaults
    /\ caseFaults' = caseFaults + 1
    /\ updating' = [updating EXCEPT ![r] = NoUpdate]
    /\ UNCHANGED <<cover, objects, forms, caseCopy, caseLoad, staleCover, staleCopy,
                   uploads, caseCalls>>

\* invalidateAfterCaseMutation swallows its errors.
AfterInvalidation(r) ==
    IF updating[r].replaces /\ AfterCommit(r) = "invalidate"
    THEN [updating EXCEPT ![r].at = "delete"]
    ELSE [updating EXCEPT ![r] = NoUpdate]

DropCopy(r) ==
    /\ updating[r].at = "invalidate"
    /\ caseCopy' = NoCover
    /\ staleCopy' = FALSE
    /\ updating' = AfterInvalidation(r)
    /\ UNCHANGED <<cover, objects, forms, caseLoad, staleCover, uploads,
                   caseCalls, caseFaults>>

DropFails(r) ==
    /\ updating[r].at = "invalidate"
    /\ caseFaults < MaxCaseFaults
    /\ caseFaults' = caseFaults + 1
    /\ staleCopy' = TRUE
    /\ updating' = AfterInvalidation(r)
    /\ UNCHANGED <<cover, objects, forms, caseCopy, caseLoad, staleCover,
                   uploads, caseCalls>>

\* Only a cover of this case is deleted, and never the new one.
ReplacedCover(r) == {updating[r].previous} \ {updating[r].url, NoCover}

DeleteObject(r) ==
    /\ updating[r].at = "delete"
    /\ objects' = objects \ ReplacedCover(r)
    /\ updating' = IF AfterCommit(r) = "delete"
                   THEN [updating EXCEPT ![r].at = "invalidate"]
                   ELSE [updating EXCEPT ![r] = NoUpdate]
    /\ UNCHANGED <<cover, forms, caseCopy, caseLoad, staleCover, staleCopy,
                   uploads, caseCalls, caseFaults>>

\* The deletion is best effort.
DeleteFails(r) ==
    /\ updating[r].at = "delete"
    /\ caseFaults < MaxCaseFaults
    /\ caseFaults' = caseFaults + 1
    /\ updating' = [updating EXCEPT ![r] = NoUpdate]
    /\ UNCHANGED <<cover, objects, forms, caseCopy, caseLoad, staleCover, staleCopy,
                   uploads, caseCalls>>

RestartCases ==
    /\ \E r \in Updates : updating[r].at # "idle"
    /\ caseFaults < MaxCaseFaults
    /\ caseFaults' = caseFaults + 1
    /\ updating' = [r \in Updates |-> NoUpdate]
    /\ UNCHANGED <<cover, objects, forms, caseCopy, caseLoad, staleCover, staleCopy,
                   uploads, caseCalls>>

(* ----------------------- the public API (outside) ------------------------ *)

LoadCase ==
    /\ caseCopy = NoCover /\ caseLoad = NoCover
    /\ caseLoad' = cover
    /\ UNCHANGED <<cover, objects, forms, caseCopy, updating, staleCover, staleCopy,
                   uploads, caseCalls, caseFaults>>
FillCaseCopy ==
    /\ caseLoad # NoCover
    /\ caseCopy' = caseLoad
    /\ staleCopy' = (staleCover \/ caseLoad # cover)
    /\ caseLoad' = NoCover
    /\ UNCHANGED <<cover, objects, forms, updating, staleCover, uploads,
                   caseCalls, caseFaults>>

UpdateStep(r) ==
    \/ BeginUpdate(r) \/ FindCase(r) \/ PutObject(r) \/ CommitCase(r) \/ CommitFails(r)
    \/ DropCopy(r) \/ DropFails(r) \/ DeleteObject(r) \/ DeleteFails(r)

CoverNext ==
    \/ \E r \in Updates : UpdateStep(r)
    \/ OpenForm \/ RestartCases \/ LoadCase \/ FillCaseCopy

CoverSpec == CoverInit /\ [][CoverNext]_coverVars

(* ------------------------------ properties ------------------------------- *)

\* A cover that is saved or served is there: whatever is replaced at the same
\* time and wherever an update fails or is cut off, the object is deleted only
\* when neither the row nor the cached copy names it.  Excepted are a row saved
\* from a form older than the row, and a copy that the cache should not have.
CoverIsThere ==
    /\ ~staleCover => cover \in objects
    /\ (~staleCopy /\ caseCopy # NoCover) => caseCopy \in objects

=============================================================================
