---------------------------- MODULE NDownloader -----------------------------
(***************************************************************************)
(* NDownloader as a value: the state it keeps and what each of its         *)
(* handlers makes of it.  NUpdateController holds one and calls it.        *)
(*                                                                         *)
(* A download is known by an id of its caller's; its reply and the timer   *)
(* made with it share a number.  The data of a reply comes in one piece.   *)
(***************************************************************************)
EXTENDS Naturals

CONSTANTS
  Id,       \* names of downloads; each has one file it is saved to
  Content,  \* what a file may hold
  Request,  \* what may be asked for under an id (a URL)
  Reply,    \* bound: the numbers of replies
  Empty,    \* what a byte array holds before the first data
  None      \* no reply, no file, no timer

cCount_RetryTimes == 3

(* tDownloadData: an entry whose reply is None was made by operator[]. *)
Entry ==
  [pNetworkReply : Reply \cup {None}, mFileContents : Content \cup {Empty},
   pTimeoutTimer : Reply \cup {None}, mRetryTimes : 0 .. cCount_RetryTimes]

DefaultEntry ==
  [pNetworkReply |-> None, mFileContents |-> Empty, pTimeoutTimer |-> None, mRetryTimes |-> 0]

(* An invocation of fDownload, or the reply it made. *)
Asked == [id : Id, url : Request]

Downloader ==
  [mDownloadData : UNION {[ids -> Entry] : ids \in SUBSET Id},
   replies : [Reply -> Asked \cup {None}],  \* those not finished
   timers : SUBSET Reply,                   \* those running
   files : [Id -> Content \cup {None}],
   queued : SUBSET Asked]                   \* invocations in the event queue

NewDownloader(files) ==
  [mDownloadData |-> <<>>, replies |-> [r \in Reply |-> None], timers |-> {},
   files |-> files, queued |-> {}]

Known(d, id) == id \in DOMAIN d.mDownloadData

(* operator[] of the map *)
At(d, id) == IF Known(d, id) THEN d.mDownloadData[id] ELSE DefaultEntry

With(d, id, entry) ==
  [d EXCEPT !.mDownloadData = [i \in DOMAIN @ \cup {id} |-> IF i = id THEN entry ELSE @[i]]]

Without(d, id) ==
  [d EXCEPT !.mDownloadData = [i \in DOMAIN @ \ {id} |-> @[i]]]

Free(d) == {r \in Reply : d.replies[r] = None /\ r \notin d.timers}

(* The request is made: reply, timer and entry. *)
Requested(d, asked) ==
  LET r == CHOOSE free \in Free(d) : TRUE
  IN  With([d EXCEPT !.files[asked.id] = None, !.replies[r] = asked, !.timers = @ \cup {r}],
           asked.id,
           [pNetworkReply |-> r, mFileContents |-> Empty, pTimeoutTimer |-> r, mRetryTimes |-> 0])

(* Mutant: the id is not looked up. *)
DownloadedTwice(d, asked, removed) ==
  IF d.files[asked.id] # None /\ ~removed THEN d ELSE Requested(d, asked)

(* "removed": whether an existing file can be removed; when it cannot the  *)
(* download ends with sError.                                              *)
fDownload(d, asked, removed) ==
  IF Known(d, asked.id) \/ (d.files[asked.id] # None /\ ~removed)
  THEN d
  ELSE Requested(d, asked)

(* downloadProgress: the data is kept and the timer starts again. *)
Progress(d, r, content) ==
  LET id == d.replies[r].id
  IN  With([d EXCEPT !.timers = @ \cup {At(d, id).pTimeoutTimer}],
           id, [At(d, id) EXCEPT !.mFileContents = content])

(* Mutant: the entry is removed before its data is written. *)
SavedTooLate(d, id, written) ==
  IF written THEN [d EXCEPT !.files[id] = At(Without(d, id), id).mFileContents] ELSE d

(* The file is written; sFinished follows, or sError when it was not. *)
Saved(d, id, written) ==
  IF written THEN [d EXCEPT !.files[id] = At(d, id).mFileContents] ELSE d

(* Mutant: the entry stays. *)
EndedKept(d, id) ==
  LET entry == At(d, id)
  IN  [d EXCEPT !.timers = @ \ {entry.pTimeoutTimer},
                !.replies = [r \in Reply |-> IF r = entry.pNetworkReply THEN None ELSE @[r]]]

(* The end of the handler of finished: reply, timer and entry go. *)
Ended(d, id) ==
  LET entry == At(d, id)
  IN  Without([d EXCEPT !.timers = @ \ {entry.pTimeoutTimer},
                        !.replies = [r \in Reply |-> IF r = entry.pNetworkReply THEN None ELSE @[r]]],
              id)

(* The timer of a reply: abort() makes the reply emit error and finished   *)
(* before it returns, so the entry is gone when mDownloadData[lDownloadID] *)
(* is read for the retry and makes a new, empty one.                       *)
TimedOut(d, r) ==
  LET asked == d.replies[r]
      last == At(d, asked.id).mRetryTimes = cCount_RetryTimes
      aborted == Ended([d EXCEPT !.timers = @ \ {r}], asked.id)
  IN  IF last
      THEN aborted
      ELSE [With(aborted, asked.id, DefaultEntry) EXCEPT !.queued = @ \cup {asked}]

(* A queued invocation runs. *)
Dequeued(d, asked, removed) ==
  fDownload([d EXCEPT !.queued = @ \ {asked}], asked, removed)
=============================================================================
