------------------------- MODULE NUpdateController --------------------------
(***************************************************************************)
(* NUpdateController: a timer makes it download the list of the latest     *)
(* versions; when that names one newer than the installed one it downloads *)
(* the manifest of it, and checkupdates tells who asks.  One event loop;   *)
(* sFinished calls fProcessFinishedDownload before the downloader goes on. *)
(*                                                                         *)
(* Versions are naturals, the number that QVersionNumber makes of nothing  *)
(* is 0.  A manifest holds what its version says, an installation does not *)
(* change while the updater runs.  updatesystem does nothing in the code.  *)
(***************************************************************************)
EXTENDS Naturals

CONSTANTS
  MaxVersion,  \* bound: versions that are published
  MaxErrors,   \* bound: failures of the network and of the disk
  Reply,       \* bound: downloads at a time
  Empty,       \* nothing downloaded yet
  None         \* no file, no reply

ASSUME UpdaterConstants ==
  /\ MaxVersion \in Nat
  /\ MaxErrors \in Nat
  /\ \E r, s \in Reply : r # s
  /\ None \notin Reply \cup 0 .. MaxVersion
  /\ Empty \notin 0 .. MaxVersion

Version == 1 .. MaxVersion

cFileName_Versions == "Versions.txt"
cFileName_VersionManifest == "Version.manifest"

INSTANCE NDownloader WITH
  Id <- {cFileName_Versions, cFileName_VersionManifest},
  Content <- 0 .. MaxVersion,
  Request <- 0 .. MaxVersion

ASSUME NoReplyIsNothing == None \notin Asked

VARIABLES
  mDownloader,
  mCheckUpdatesTimer,      \* whether it runs
  mCurrentVersionManifest, \* the manifest read from the installation
  mLatestVersionManifest,  \* the manifest downloaded last
  installed,               \* Version.manifest of the installation
  published,               \* the latest version at the package source
  errors                   \* failures so far

vars == <<mDownloader, mCheckUpdatesTimer, mCurrentVersionManifest,
          mLatestVersionManifest, installed, published, errors>>

Manifest == Version \cup {None}

TypeOK ==
  /\ mDownloader \in Downloader
  /\ mCheckUpdatesTimer \in BOOLEAN
  /\ mCurrentVersionManifest \in Manifest
  /\ mLatestVersionManifest \in Manifest
  /\ installed \in Manifest
  /\ published \in 0 .. MaxVersion
  /\ errors \in 0 .. MaxErrors

-----------------------------------------------------------------------------
(* NVersionManifest: a manifest without a file answers with empty values. *)

fIsValid(manifest) == manifest # None

fVersionNumber(manifest) == IF fIsValid(manifest) THEN manifest ELSE 0

(* The other fields are as empty as the manifest is. *)
fManifestContents(manifest) == [VersionNumber |-> fVersionNumber(manifest)]

(* What checkupdates answers. *)
UpdateAvailable ==
  fVersionNumber(mLatestVersionManifest) > fVersionNumber(mCurrentVersionManifest)

checkupdates ==
  [UpdateAvailable |-> UpdateAvailable,
   contents |-> fManifestContents(IF UpdateAvailable THEN mLatestVersionManifest
                                  ELSE mCurrentVersionManifest)]

-----------------------------------------------------------------------------
(* A file of the downloads directory may be there from an earlier life,    *)
(* and that directory may be one that cannot be made.                      *)
Init ==
  /\ mDownloader \in {NewDownloader(files) :
                        files \in [{cFileName_Versions, cFileName_VersionManifest} -> {0, None}]}
  /\ mCheckUpdatesTimer \in BOOLEAN
  /\ mCurrentVersionManifest = None
  /\ mLatestVersionManifest = None
  /\ installed \in Manifest
  /\ published \in 0 .. MaxVersion
  /\ errors = 0

(* An operation on the disk works or fails. *)
Disk(ok) ==
  \/ ok /\ UNCHANGED errors
  \/ ~ok /\ errors < MaxErrors /\ errors' = errors + 1

fDownloadManifest(d, lVersion, removed) ==
  fDownload(d, [id |-> cFileName_VersionManifest, url |-> lVersion], removed)

(* The downloader after the list was read, given what the installation is. *)
fVerifyIfNewUpdateIsAvailable(d, lLastVersion, removed) ==
  IF fIsValid(installed) /\ lLastVersion <= fVersionNumber(installed)
  THEN d
  ELSE fDownloadManifest(d, lLastVersion, removed)

(* The slot of sFinished: the downloader it leaves, the manifests it sets. *)
fProcessFinishedDownload(d, id, removed) ==
  IF id = cFileName_Versions
  THEN [downloader |-> fVerifyIfNewUpdateIsAvailable(d, d.files[id], removed),
        current |-> installed, latest |-> mLatestVersionManifest]
  ELSE [downloader |-> d, current |-> mCurrentVersionManifest, latest |-> d.files[id]]

Stays(downloader) ==
  [downloader |-> downloader, current |-> mCurrentVersionManifest, latest |-> mLatestVersionManifest]

(* finished without an error: save, tell, end. *)
FinishedWith(d, id, written, removed) ==
  LET saved == Saved(d, id, written)
      told == IF written THEN fProcessFinishedDownload(saved, id, removed) ELSE Stays(saved)
  IN  [told EXCEPT !.downloader = Ended(@, id)]

-----------------------------------------------------------------------------
fDownloadLatestVersionsList ==
  /\ mCheckUpdatesTimer
  /\ \E removed \in BOOLEAN :
       /\ Disk(removed)
       /\ mDownloader' =
            fDownload(mDownloader, [id |-> cFileName_Versions, url |-> 0], removed)
  /\ UNCHANGED <<mCheckUpdatesTimer, mCurrentVersionManifest, mLatestVersionManifest,
                 installed, published>>

InFlight(r) == mDownloader.replies[r] # None

Url(r) == mDownloader.replies[r].url

IsList(r) == mDownloader.replies[r].id = cFileName_Versions

(* The package source has the list, and the manifests of what it published. *)
Found(r) == IsList(r) \/ Url(r) \in 1 .. published

Arrived(r) ==
  At(mDownloader, mDownloader.replies[r].id).mFileContents # Empty

DataArrives(r) ==
  /\ InFlight(r)
  /\ Found(r)
  /\ ~Arrived(r)
  /\ mDownloader' = Progress(mDownloader, r, IF IsList(r) THEN published ELSE Url(r))
  /\ UNCHANGED <<mCheckUpdatesTimer, mCurrentVersionManifest, mLatestVersionManifest,
                 installed, published, errors>>

Finished(r) ==
  /\ InFlight(r)
  /\ Arrived(r)
  /\ \E written, removed \in BOOLEAN :
       /\ Disk(written /\ removed)
       /\ LET after == FinishedWith(mDownloader, mDownloader.replies[r].id, written, removed)
          IN  /\ mDownloader' = after.downloader
              /\ mCurrentVersionManifest' = after.current
              /\ mLatestVersionManifest' = after.latest
  /\ UNCHANGED <<mCheckUpdatesTimer, installed, published>>

(* error, which emits sError, and then finished. *)
NetworkError(r) ==
  /\ InFlight(r)
  /\ \/ ~Found(r) /\ UNCHANGED errors
     \/ errors < MaxErrors /\ errors' = errors + 1
  /\ mDownloader' = Ended(mDownloader, mDownloader.replies[r].id)
  /\ UNCHANGED <<mCheckUpdatesTimer, mCurrentVersionManifest, mLatestVersionManifest,
                 installed, published>>

Timeout(r) ==
  /\ r \in mDownloader.timers
  /\ mDownloader' = TimedOut(mDownloader, r)
  /\ UNCHANGED <<mCheckUpdatesTimer, mCurrentVersionManifest, mLatestVersionManifest,
                 installed, published, errors>>

Invoked(asked) ==
  /\ asked \in mDownloader.queued
  /\ \E removed \in BOOLEAN :
       /\ Disk(removed)
       /\ mDownloader' = Dequeued(mDownloader, asked, removed)
  /\ UNCHANGED <<mCheckUpdatesTimer, mCurrentVersionManifest, mLatestVersionManifest,
                 installed, published>>

(* The publisher, who is not part of the program. *)
Publish ==
  /\ published < MaxVersion
  /\ published' = published + 1
  /\ UNCHANGED <<mDownloader, mCheckUpdatesTimer, mCurrentVersionManifest,
                 mLatestVersionManifest, installed, errors>>

Ends(r) == DataArrives(r) \/ Finished(r) \/ NetworkError(r) \/ Timeout(r)

Next ==
  \/ fDownloadLatestVersionsList
  \/ \E r \in Reply : Ends(r)
  \/ \E asked \in mDownloader.queued : Invoked(asked)
  \/ Publish

Spec == Init /\ [][Next]_vars

(* The check timer goes on firing; a reply ends because its own timer does *)
(* not let it wait for ever; the event loop runs what is queued.           *)
FairSpec ==
  /\ Spec
  /\ WF_vars(fDownloadLatestVersionsList)
  /\ \A r \in Reply : WF_vars(Ends(r))
  /\ WF_vars(\E asked \in mDownloader.queued : Invoked(asked))

-----------------------------------------------------------------------------
(* Two downloads never share an entry: each reply that is not finished has *)
(* the entry of its id to itself, with its own timer running, and an entry *)
(* whose reply is gone is one that a timeout left.  The handlers of a      *)
(* reply read the entry by id, so a reply without its own would write into *)
(* another's data and stop another's timer (NDownloader.cpp 38-93).        *)
RepliesHaveTheirEntry ==
  /\ \A r \in Reply :
       InFlight(r) => /\ At(mDownloader, mDownloader.replies[r].id).pNetworkReply = r
                      /\ At(mDownloader, mDownloader.replies[r].id).pTimeoutTimer = r
                      /\ r \in mDownloader.timers
  /\ \A id \in DOMAIN mDownloader.mDownloadData :
       LET r == mDownloader.mDownloadData[id].pNetworkReply
       IN  r # None => InFlight(r) /\ mDownloader.replies[r].id = id

(* An id whose download timed out is never downloaded again. *)
Blocked == \E id \in DOMAIN mDownloader.mDownloadData : mDownloader.mDownloadData[id] = DefaultEntry

(* A version newer than the installed one is, in the end, what             *)
(* checkupdates announces, with its manifest, unless a newer one is        *)
(* published first or a download times out: whatever the network and the   *)
(* disk refuse on the way, the next check of the timer starts again        *)
(* (NUpdateController.cpp 47-62, 73-124).                                  *)
NewVersionAnnounced ==
  \A v \in Version :
    (mCheckUpdatesTimer /\ published = v /\ v > fVersionNumber(installed))
      ~> (Blocked \/ published > v
            \/ (checkupdates.UpdateAvailable /\ checkupdates.contents.VersionNumber = v))
=============================================================================
