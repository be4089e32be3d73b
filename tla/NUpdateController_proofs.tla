---------------------- MODULE NUpdateController_proofs ----------------------
(***************************************************************************)
(* Proofs about the updater: whatever the network, the disk and the timers *)
(* do, a download that is not finished has the entry of its id to itself.  *)
(*                                                                         *)
(* The lemmas are about the downloader as a value, one for each of its     *)
(* handlers; the steps of the updater cite them.                           *)
(***************************************************************************)
EXTENDS NUpdateController, TLAPS

Ids == {cFileName_Versions, cFileName_VersionManifest}

(* A reply that is not finished is the one of its entry. *)
OwnEntry(d) ==
  \A r \in Reply :
    d.replies[r] # None => /\ Known(d, d.replies[r].id)
                           /\ d.mDownloadData[d.replies[r].id].pNetworkReply = r
                           /\ d.mDownloadData[d.replies[r].id].pTimeoutTimer = r
                           /\ r \in d.timers

(* The reply of an entry is not finished, and was made for it. *)
OwnReply(d) ==
  \A id \in DOMAIN d.mDownloadData :
    d.mDownloadData[id].pNetworkReply # None =>
      /\ d.replies[d.mDownloadData[id].pNetworkReply] # None
      /\ d.replies[d.mDownloadData[id].pNetworkReply].id = id

(* No timer runs for a reply that is finished: TimedOut reads the reply. *)
TimersOfReplies(d) == \A r \in d.timers : d.replies[r] # None

(* What arrives for a manifest is the manifest of a version. *)
ManifestsOfVersions(d) ==
  Known(d, cFileName_VersionManifest) =>
    d.mDownloadData[cFileName_VersionManifest].mFileContents \in Version \cup {Empty}

Consistent(d) ==
  /\ d \in Downloader
  /\ OwnEntry(d)
  /\ OwnReply(d)
  /\ TimersOfReplies(d)
  /\ ManifestsOfVersions(d)

(* The inductive invariant. *)
IInv ==
  /\ TypeOK
  /\ Consistent(mDownloader)

-----------------------------------------------------------------------------
(* The fields of a downloader have their types. *)
LEMMA Fields ==
  ASSUME NEW d \in Downloader
  PROVE  /\ DOMAIN d.mDownloadData \subseteq Ids
         /\ \A id \in DOMAIN d.mDownloadData : d.mDownloadData[id] \in Entry
         /\ d.mDownloadData = [id \in DOMAIN d.mDownloadData |-> d.mDownloadData[id]]
         /\ d.replies \in [Reply -> Asked \cup {None}]
         /\ d.timers \subseteq Reply
         /\ d.files \in [Ids -> 0 .. MaxVersion \cup {None}]
         /\ d.queued \subseteq Asked
<1>1. PICK ids \in SUBSET Ids : d.mDownloadData \in [ids -> Entry]
  BY DEF Downloader, Ids
<1> QED
  BY <1>1 DEF Downloader, Ids

(* A record whose fields have their types is a downloader. *)
LEMMA IsDownloader ==
  ASSUME NEW data, NEW replies, NEW timers, NEW files, NEW queued,
         data = [id \in DOMAIN data |-> data[id]],
         DOMAIN data \subseteq Ids,
         \A id \in DOMAIN data : data[id] \in Entry,
         replies \in [Reply -> Asked \cup {None}],
         timers \subseteq Reply,
         files \in [Ids -> 0 .. MaxVersion \cup {None}],
         queued \subseteq Asked
  PROVE  [mDownloadData |-> data, replies |-> replies, timers |-> timers,
          files |-> files, queued |-> queued] \in Downloader
<1>1. data \in [DOMAIN data -> Entry]
  OBVIOUS
<1>2. data \in UNION {[ids -> Entry] : ids \in SUBSET Ids}
  BY <1>1
<1> QED
  BY <1>2 DEF Downloader, Ids

(* A downloader is the record of its fields. *)
LEMMA OfItsFields ==
  ASSUME NEW d \in Downloader
  PROVE  d = [mDownloadData |-> d.mDownloadData, replies |-> d.replies, timers |-> d.timers,
              files |-> d.files, queued |-> d.queued]
BY DEF Downloader

(* An entry that is not there is the default one. *)
LEMMA DefaultEntryTyped == DefaultEntry \in Entry
BY DEF DefaultEntry, Entry, cCount_RetryTimes

(* operator[] answers with an entry. *)
LEMMA EntryFound ==
  ASSUME NEW d \in Downloader, NEW id
  PROVE  At(d, id) \in Entry
BY Fields, DefaultEntryTyped DEF At, Known

(* An entry put under an id is the one found there; the others stay. *)
LEMMA PutEntry ==
  ASSUME NEW d \in Downloader, NEW id \in Ids, NEW entry \in Entry,
         NEW e, e = With(d, id, entry)
  PROVE  /\ e \in Downloader
         /\ DOMAIN e.mDownloadData = DOMAIN d.mDownloadData \cup {id}
         /\ e.mDownloadData[id] = entry
         /\ \A i \in DOMAIN d.mDownloadData : i # id => e.mDownloadData[i] = d.mDownloadData[i]
         /\ e.replies = d.replies
         /\ e.timers = d.timers
         /\ e.files = d.files
         /\ e.queued = d.queued
<1> DEFINE data == [i \in DOMAIN d.mDownloadData \cup {id} |->
                      IF i = id THEN entry ELSE d.mDownloadData[i]]
<1>1. e = [mDownloadData |-> data, replies |-> d.replies, timers |-> d.timers,
           files |-> d.files, queued |-> d.queued]
  BY OfItsFields DEF With
<1>2. /\ data = [i \in DOMAIN data |-> data[i]]
      /\ DOMAIN data = DOMAIN d.mDownloadData \cup {id}
      /\ data[id] = entry
      /\ \A i \in DOMAIN d.mDownloadData : i # id => data[i] = d.mDownloadData[i]
  OBVIOUS
<1>3. DOMAIN data \subseteq Ids /\ \A i \in DOMAIN data : data[i] \in Entry
  BY <1>2, Fields
<1> HIDE DEF data
<1>4. /\ d.replies \in [Reply -> Asked \cup {None}]
      /\ d.timers \subseteq Reply
      /\ d.files \in [Ids -> 0 .. MaxVersion \cup {None}]
      /\ d.queued \subseteq Asked
  BY Fields
<1>5. e \in Downloader
  BY <1>1, <1>2, <1>3, <1>4, IsDownloader
<1> QED
  BY <1>1, <1>2, <1>5

(* An entry removed is not there any more; the others stay. *)
LEMMA RemoveEntry ==
  ASSUME NEW d \in Downloader, NEW id, NEW e, e = Without(d, id)
  PROVE  /\ e \in Downloader
         /\ DOMAIN e.mDownloadData = DOMAIN d.mDownloadData \ {id}
         /\ \A i \in DOMAIN e.mDownloadData : e.mDownloadData[i] = d.mDownloadData[i]
         /\ e.replies = d.replies
         /\ e.timers = d.timers
         /\ e.files = d.files
         /\ e.queued = d.queued
<1> DEFINE data == [i \in DOMAIN d.mDownloadData \ {id} |-> d.mDownloadData[i]]
<1>1. e = [mDownloadData |-> data, replies |-> d.replies, timers |-> d.timers,
           files |-> d.files, queued |-> d.queued]
  BY OfItsFields DEF Without
<1>2. /\ data = [i \in DOMAIN data |-> data[i]]
      /\ DOMAIN data = DOMAIN d.mDownloadData \ {id}
      /\ \A i \in DOMAIN data : data[i] = d.mDownloadData[i]
  OBVIOUS
<1>3. DOMAIN data \subseteq Ids /\ \A i \in DOMAIN data : data[i] \in Entry
  BY <1>2, Fields
<1> HIDE DEF data
<1>4. /\ d.replies \in [Reply -> Asked \cup {None}]
      /\ d.timers \subseteq Reply
      /\ d.files \in [Ids -> 0 .. MaxVersion \cup {None}]
      /\ d.queued \subseteq Asked
  BY Fields
<1>5. e \in Downloader
  BY <1>1, <1>2, <1>3, <1>4, IsDownloader
<1> QED
  BY <1>1, <1>2, <1>5

-----------------------------------------------------------------------------
(* An id that is not known has a number left for its reply: the other one  *)
(* uses one at the most, so the bound on the replies forbids nothing.      *)
LEMMA OneIsFree ==
  ASSUME NEW d, Consistent(d), NEW asked \in Asked, ~Known(d, asked.id)
  PROVE  Free(d) # {}
<1>1. d \in Downloader /\ OwnEntry(d) /\ TimersOfReplies(d)
  BY DEF Consistent
<1>2. PICK r \in Reply, s \in Reply : r # s
  BY UpdaterConstants
<1>3. asked.id \in Ids
  BY DEF Asked, Ids
<1>4. ASSUME NEW t \in Reply, d.replies[t] # None
      PROVE  d.replies[t].id \in Ids \ {asked.id}
  <2>1. d.replies \in [Reply -> Asked \cup {None}]
    BY <1>1, Fields
  <2>2. d.replies[t] \in Asked
    BY <1>4, <2>1
  <2>3. Known(d, d.replies[t].id)
    BY <1>1, <1>4 DEF OwnEntry
  <2>4. d.replies[t].id # asked.id
    BY <2>3
  <2> QED
    BY <2>2, <2>4 DEF Asked, Ids
<1>5. ~(d.replies[r] # None /\ d.replies[s] # None)
  <2> SUFFICES ASSUME d.replies[r] # None, d.replies[s] # None
               PROVE  FALSE
    OBVIOUS
  <2>1. d.replies[r].id = d.replies[s].id
    BY <1>3, <1>4 DEF Ids
  <2> QED
    BY <1>1, <1>2, <2>1 DEF OwnEntry
<1>6. PICK t \in Reply : d.replies[t] = None
  BY <1>5
<1>7. t \in Free(d)
  BY <1>1, <1>6 DEF Free, TimersOfReplies
<1> QED
  BY <1>7

(* A request gets a reply, a timer and an entry that no other one has. *)
LEMMA RequestedConsistent ==
  ASSUME NEW d, Consistent(d), NEW asked \in Asked, ~Known(d, asked.id),
         NEW e, e = Requested(d, asked)
  PROVE  /\ Consistent(e)
         /\ \A r \in Reply : d.replies[r] # None => e.replies[r] = d.replies[r]
         /\ e.files = [d.files EXCEPT ![asked.id] = None]
<1>1. d \in Downloader /\ OwnEntry(d) /\ OwnReply(d) /\ TimersOfReplies(d) /\ ManifestsOfVersions(d)
  BY DEF Consistent
<1>2. PICK r : r = CHOOSE free \in Free(d) : TRUE
  OBVIOUS
<1>3. r \in Reply /\ d.replies[r] = None /\ r \notin d.timers
  BY <1>2, OneIsFree DEF Free
<1>4. PICK f : f = [d EXCEPT !.files[asked.id] = None, !.replies[r] = asked, !.timers = @ \cup {r}]
  OBVIOUS
<1>5. PICK entry : entry = [pNetworkReply |-> r, mFileContents |-> Empty,
                            pTimeoutTimer |-> r, mRetryTimes |-> 0]
  OBVIOUS
<1>6. asked.id \in Ids /\ entry \in Entry /\ asked # None
  BY <1>3, <1>5, NoReplyIsNothing DEF Entry, cCount_RetryTimes, Asked, Ids
<1>7. f = [mDownloadData |-> d.mDownloadData,
           replies |-> [d.replies EXCEPT ![r] = asked],
           timers |-> d.timers \cup {r},
           files |-> [d.files EXCEPT ![asked.id] = None],
           queued |-> d.queued]
  BY <1>1, <1>4 DEF Downloader
<1>8. /\ [d.replies EXCEPT ![r] = asked] \in [Reply -> Asked \cup {None}]
      /\ d.timers \cup {r} \subseteq Reply
      /\ [d.files EXCEPT ![asked.id] = None] \in [Ids -> 0 .. MaxVersion \cup {None}]
  BY <1>1, <1>3, <1>6, Fields
<1>9. f \in Downloader
  BY <1>1, <1>7, <1>8, Fields, IsDownloader
<1>10. e = With(f, asked.id, entry)
  BY <1>2, <1>4, <1>5 DEF Requested
<1>11. /\ e \in Downloader
       /\ DOMAIN e.mDownloadData = DOMAIN d.mDownloadData \cup {asked.id}
       /\ e.mDownloadData[asked.id] = entry
       /\ \A i \in DOMAIN d.mDownloadData :
            i # asked.id => e.mDownloadData[i] = d.mDownloadData[i]
       /\ e.replies = [d.replies EXCEPT ![r] = asked]
       /\ e.timers = d.timers \cup {r}
       /\ e.files = [d.files EXCEPT ![asked.id] = None]
  <2>1. /\ f.mDownloadData = d.mDownloadData
        /\ f.replies = [d.replies EXCEPT ![r] = asked]
        /\ f.timers = d.timers \cup {r}
        /\ f.files = [d.files EXCEPT ![asked.id] = None]
    BY <1>7
  <2>2. asked.id \in Ids /\ entry \in Entry
    BY <1>6
  <2>3. /\ e \in Downloader
        /\ DOMAIN e.mDownloadData = DOMAIN f.mDownloadData \cup {asked.id}
        /\ e.mDownloadData[asked.id] = entry
        /\ \A i \in DOMAIN f.mDownloadData :
             i # asked.id => e.mDownloadData[i] = f.mDownloadData[i]
        /\ e.replies = f.replies
        /\ e.timers = f.timers
        /\ e.files = f.files
    BY <1>9, <1>10, <2>2, PutEntry
  <2> QED
    BY <2>1, <2>3
<1>12. d.replies \in [Reply -> Asked \cup {None}]
  BY <1>1, Fields
<1>13. e.replies[r] = asked /\ \A s \in Reply : s # r => e.replies[s] = d.replies[s]
  BY <1>3, <1>11, <1>12
<1>14. entry.pNetworkReply = r /\ entry.pTimeoutTimer = r /\ entry.mFileContents = Empty
  BY <1>5
<1>15. OwnEntry(e)
  <2> SUFFICES ASSUME NEW s \in Reply, e.replies[s] # None
               PROVE  /\ Known(e, e.replies[s].id)
                      /\ e.mDownloadData[e.replies[s].id].pNetworkReply = s
                      /\ e.mDownloadData[e.replies[s].id].pTimeoutTimer = s
                      /\ s \in e.timers
    BY DEF OwnEntry
  <2>1. CASE s = r
    BY <2>1, <1>11, <1>13, <1>14 DEF Known
  <2>2. CASE s # r
    <3>1. d.replies[s] # None /\ e.replies[s] = d.replies[s]
      BY <2>2, <1>13
    <3>2. d.replies[s].id # asked.id /\ d.replies[s].id \in DOMAIN d.mDownloadData
      BY <3>1, <1>1 DEF OwnEntry, Known
    <3> QED
      BY <3>1, <3>2, <1>1, <1>11 DEF OwnEntry, Known
  <2> QED
    BY <2>1, <2>2
<1>16. OwnReply(e)
  <2> SUFFICES ASSUME NEW id \in DOMAIN e.mDownloadData,
                      e.mDownloadData[id].pNetworkReply # None
               PROVE  /\ e.replies[e.mDownloadData[id].pNetworkReply] # None
                      /\ e.replies[e.mDownloadData[id].pNetworkReply].id = id
    BY DEF OwnReply
  <2>1. CASE id = asked.id
    BY <2>1, <1>6, <1>11, <1>13, <1>14
  <2>2. CASE id # asked.id
    <3>1. id \in DOMAIN d.mDownloadData /\ e.mDownloadData[id] = d.mDownloadData[id]
      BY <2>2, <1>11
    <3>2. d.mDownloadData[id].pNetworkReply \in Reply
      <4>1. d.mDownloadData[id] \in Entry /\ d.mDownloadData[id].pNetworkReply # None
        BY <3>1, <1>1, Fields
      <4> QED
        BY <4>1 DEF Entry
    <3>3. d.replies[d.mDownloadData[id].pNetworkReply] # None
      BY <3>1, <1>1 DEF OwnReply
    <3> QED
      BY <3>1, <3>2, <3>3, <1>1, <1>3, <1>13 DEF OwnReply
  <2> QED
    BY <2>1, <2>2
<1>17. TimersOfReplies(e)
  BY <1>1, <1>6, <1>11, <1>13, Fields DEF TimersOfReplies
<1>18. ManifestsOfVersions(e)
  BY <1>1, <1>11, <1>14 DEF ManifestsOfVersions, Known
<1> QED
  BY <1>3, <1>11, <1>13, <1>15, <1>16, <1>17, <1>18 DEF Consistent

(* fDownload requests what is not known, or does nothing. *)
LEMMA DownloadConsistent ==
  ASSUME NEW d, Consistent(d), NEW asked \in Asked, NEW removed \in BOOLEAN,
         NEW e, e = fDownload(d, asked, removed)
  PROVE  /\ Consistent(e)
         /\ \A r \in Reply : d.replies[r] # None => e.replies[r] = d.replies[r]
<1>1. CASE Known(d, asked.id) \/ (d.files[asked.id] # None /\ ~removed)
  BY <1>1 DEF fDownload
<1>2. CASE ~(Known(d, asked.id) \/ (d.files[asked.id] # None /\ ~removed))
  <2>1. e = Requested(d, asked) /\ ~Known(d, asked.id)
    BY <1>2 DEF fDownload
  <2>2. /\ Consistent(e)
        /\ \A r \in Reply : d.replies[r] # None => e.replies[r] = d.replies[r]
        /\ e.files = [d.files EXCEPT ![asked.id] = None]
    BY <2>1, RequestedConsistent
  <2> QED
    BY <2>2
<1> QED
  BY <1>1, <1>2

(* Data goes to the entry of its reply, whose timer was running anyway. *)
LEMMA ProgressConsistent ==
  ASSUME NEW d, Consistent(d), NEW r \in Reply, d.replies[r] # None,
         NEW content \in 0 .. MaxVersion,
         d.replies[r].id = cFileName_VersionManifest => content \in Version,
         NEW e, e = Progress(d, r, content)
  PROVE  Consistent(e)
<1>1. d \in Downloader /\ OwnEntry(d) /\ OwnReply(d) /\ TimersOfReplies(d) /\ ManifestsOfVersions(d)
  BY DEF Consistent
<1>2. PICK id : id = d.replies[r].id
  OBVIOUS
<1>3. /\ id \in DOMAIN d.mDownloadData
      /\ d.mDownloadData[id].pNetworkReply = r
      /\ d.mDownloadData[id].pTimeoutTimer = r
      /\ r \in d.timers
  BY <1>1, <1>2 DEF OwnEntry, Known
<1>4. id \in Ids /\ d.mDownloadData[id] \in Entry
  BY <1>1, <1>3, Fields
<1>5. PICK entry : entry = [d.mDownloadData[id] EXCEPT !.mFileContents = content]
  OBVIOUS
<1>6. /\ entry \in Entry
      /\ entry.pNetworkReply = r
      /\ entry.pTimeoutTimer = r
      /\ entry.mFileContents = content
  BY <1>3, <1>4, <1>5 DEF Entry
<1>7. [d EXCEPT !.timers = @ \cup {r}] = d
  <2>1. d.timers \cup {r} = d.timers
    BY <1>3
  <2> QED
    BY <2>1, <1>1 DEF Downloader
<1>8. e = With(d, id, entry)
  BY <1>2, <1>3, <1>5, <1>7 DEF Progress, At, Known
<1>9. /\ e \in Downloader
      /\ DOMAIN e.mDownloadData = DOMAIN d.mDownloadData \cup {id}
      /\ e.mDownloadData[id] = entry
      /\ \A i \in DOMAIN d.mDownloadData : i # id => e.mDownloadData[i] = d.mDownloadData[i]
      /\ e.replies = d.replies
      /\ e.timers = d.timers
  BY <1>1, <1>4, <1>6, <1>8, PutEntry
<1>10. \A i \in DOMAIN d.mDownloadData :
         /\ e.mDownloadData[i].pNetworkReply = d.mDownloadData[i].pNetworkReply
         /\ e.mDownloadData[i].pTimeoutTimer = d.mDownloadData[i].pTimeoutTimer
  BY <1>3, <1>6, <1>9
<1>11. DOMAIN e.mDownloadData = DOMAIN d.mDownloadData
  BY <1>3, <1>9
<1>12. OwnEntry(e) /\ OwnReply(e) /\ TimersOfReplies(e)
  BY <1>1, <1>9, <1>10, <1>11 DEF OwnEntry, OwnReply, TimersOfReplies, Known
<1>13. ManifestsOfVersions(e)
  BY <1>1, <1>2, <1>6, <1>9, <1>11 DEF ManifestsOfVersions, Known
<1> QED
  BY <1>9, <1>12, <1>13 DEF Consistent

(* What arrived is saved, if it is, in the file of its id. *)
LEMMA SavedConsistent ==
  ASSUME NEW d, Consistent(d), NEW r \in Reply, d.replies[r] # None,
         NEW id, id = d.replies[r].id, At(d, id).mFileContents # Empty,
         NEW written \in BOOLEAN, NEW e, e = Saved(d, id, written)
  PROVE  /\ Consistent(e)
         /\ e.replies = d.replies
         /\ id \in Ids
         /\ written => e.files[id] \in 0 .. MaxVersion
         /\ written /\ id = cFileName_VersionManifest => e.files[id] \in Version
<1>1. d \in Downloader /\ OwnEntry(d) /\ OwnReply(d) /\ TimersOfReplies(d) /\ ManifestsOfVersions(d)
  BY DEF Consistent
<1>2. id \in DOMAIN d.mDownloadData
  BY <1>1 DEF OwnEntry, Known
<1>3. id \in Ids /\ d.mDownloadData[id] \in Entry /\ At(d, id) = d.mDownloadData[id]
  BY <1>1, <1>2, Fields DEF At, Known
<1>4. PICK content : content = d.mDownloadData[id].mFileContents
  OBVIOUS
<1>5. content \in 0 .. MaxVersion /\ (id = cFileName_VersionManifest => content \in Version)
  BY <1>1, <1>2, <1>3, <1>4 DEF Entry, ManifestsOfVersions, Known
<1>6. CASE ~written
  BY <1>3, <1>6 DEF Saved
<1>7. CASE written
  <2>1. e = [mDownloadData |-> d.mDownloadData, replies |-> d.replies, timers |-> d.timers,
             files |-> [d.files EXCEPT ![id] = content], queued |-> d.queued]
    <3>1. e = [d EXCEPT !.files[id] = content]
      BY <1>3, <1>4, <1>7 DEF Saved
    <3> QED
      BY <3>1, <1>1 DEF Downloader
  <2>2. /\ d.replies \in [Reply -> Asked \cup {None}]
        /\ d.timers \subseteq Reply
        /\ d.files \in [Ids -> 0 .. MaxVersion \cup {None}]
        /\ d.queued \subseteq Asked
        /\ d.mDownloadData = [i \in DOMAIN d.mDownloadData |-> d.mDownloadData[i]]
        /\ DOMAIN d.mDownloadData \subseteq Ids
        /\ \A i \in DOMAIN d.mDownloadData : d.mDownloadData[i] \in Entry
    BY <1>1, Fields
  <2>3. [d.files EXCEPT ![id] = content] \in [Ids -> 0 .. MaxVersion \cup {None}]
    BY <2>2, <1>5
  <2>4. e \in Downloader
    BY <2>1, <2>2, <2>3, IsDownloader
  <2>5. e.files[id] = content
    BY <2>1, <2>2, <1>3
  <2>6. /\ e.mDownloadData = d.mDownloadData
        /\ e.replies = d.replies
        /\ e.timers = d.timers
    BY <2>1
  <2>7. OwnEntry(e) /\ OwnReply(e) /\ TimersOfReplies(e) /\ ManifestsOfVersions(e)
    <3>1. OwnEntry(e)
      BY <2>6, <1>1 DEF OwnEntry, Known
    <3>2. OwnReply(e)
      BY <2>6, <1>1 DEF OwnReply, Known
    <3>3. TimersOfReplies(e) /\ ManifestsOfVersions(e)
      BY <2>6, <1>1 DEF TimersOfReplies, ManifestsOfVersions, Known
    <3> QED
      BY <3>1, <3>2, <3>3
  <2>8. Consistent(e)
    BY <2>4, <2>7 DEF Consistent
  <2> QED
    BY <2>5, <2>6, <2>8, <1>3, <1>5
<1> QED
  BY <1>6, <1>7

(* A reply that ends takes its timer and its entry with it, no other's. *)
LEMMA EndedConsistent ==
  ASSUME NEW d, Consistent(d), NEW r \in Reply, d.replies[r] # None,
         NEW id, id = d.replies[r].id, NEW e, e = Ended(d, id)
  PROVE  /\ Consistent(e)
         /\ ~Known(e, id)
<1>1. d \in Downloader /\ OwnEntry(d) /\ OwnReply(d) /\ TimersOfReplies(d) /\ ManifestsOfVersions(d)
  BY DEF Consistent
<1>2. /\ id \in DOMAIN d.mDownloadData
      /\ d.mDownloadData[id].pNetworkReply = r
      /\ d.mDownloadData[id].pTimeoutTimer = r
  BY <1>1 DEF OwnEntry, Known
<1>3. PICK replies : replies = [s \in Reply |-> IF s = r THEN None ELSE d.replies[s]]
  OBVIOUS
<1>4. PICK f : f = [mDownloadData |-> d.mDownloadData, replies |-> replies,
                    timers |-> d.timers \ {r}, files |-> d.files, queued |-> d.queued]
  OBVIOUS
<1>5. /\ d.replies \in [Reply -> Asked \cup {None}]
      /\ d.timers \subseteq Reply
      /\ d.files \in [Ids -> 0 .. MaxVersion \cup {None}]
      /\ d.queued \subseteq Asked
      /\ d.mDownloadData = [i \in DOMAIN d.mDownloadData |-> d.mDownloadData[i]]
      /\ DOMAIN d.mDownloadData \subseteq Ids
      /\ \A i \in DOMAIN d.mDownloadData : d.mDownloadData[i] \in Entry
  BY <1>1, Fields
<1>6. replies \in [Reply -> Asked \cup {None}] /\ d.timers \ {r} \subseteq Reply
  BY <1>3, <1>5
<1>7. f \in Downloader
  BY <1>4, <1>5, <1>6, IsDownloader
<1>8. e = Without(f, id)
  <2>1. [d EXCEPT !.timers = @ \ {r}, !.replies = replies] = f
    <3>1. d = [mDownloadData |-> d.mDownloadData, replies |-> d.replies, timers |-> d.timers,
               files |-> d.files, queued |-> d.queued]
      BY <1>1, OfItsFields
    <3>2. PICK c : c = [d EXCEPT !.timers = @ \ {r}]
      OBVIOUS
    <3>3. c = [mDownloadData |-> d.mDownloadData, replies |-> d.replies,
               timers |-> d.timers \ {r}, files |-> d.files, queued |-> d.queued]
      BY <3>1, <3>2
    <3>4. [d EXCEPT !.timers = @ \ {r}, !.replies = replies] = [c EXCEPT !.replies = replies]
      BY <3>2
    <3> QED
      BY <3>3, <3>4, <1>4
  <2>2. At(d, id) = d.mDownloadData[id]
    BY <1>2 DEF At, Known
  <2>3. [d EXCEPT !.timers = @ \ {r},
                  !.replies = [s \in Reply |-> IF s = r THEN None ELSE @[s]]] = f
    BY <2>1, <1>3
  <2> QED
    BY <2>2, <2>3, <1>2 DEF Ended
<1>9. /\ e \in Downloader
      /\ DOMAIN e.mDownloadData = DOMAIN d.mDownloadData \ {id}
      /\ \A i \in DOMAIN e.mDownloadData : e.mDownloadData[i] = d.mDownloadData[i]
      /\ e.replies = replies
      /\ e.timers = d.timers \ {r}
  <2>1. /\ f.mDownloadData = d.mDownloadData
        /\ f.replies = replies
        /\ f.timers = d.timers \ {r}
    BY <1>4
  <2>2. /\ e \in Downloader
        /\ DOMAIN e.mDownloadData = DOMAIN f.mDownloadData \ {id}
        /\ \A i \in DOMAIN e.mDownloadData : e.mDownloadData[i] = f.mDownloadData[i]
        /\ e.replies = f.replies
        /\ e.timers = f.timers
    BY <1>7, <1>8, RemoveEntry
  <2> QED
    BY <2>1, <2>2
<1>10. \A s \in Reply : e.replies[s] # None => s # r /\ e.replies[s] = d.replies[s]
  BY <1>3, <1>9
<1>11. OwnEntry(e)
  <2> SUFFICES ASSUME NEW s \in Reply, e.replies[s] # None
               PROVE  /\ Known(e, e.replies[s].id)
                      /\ e.mDownloadData[e.replies[s].id].pNetworkReply = s
                      /\ e.mDownloadData[e.replies[s].id].pTimeoutTimer = s
                      /\ s \in e.timers
    BY DEF OwnEntry
  <2>1. s # r /\ e.replies[s] = d.replies[s]
    BY <1>10
  <2>2. /\ d.replies[s].id \in DOMAIN d.mDownloadData
        /\ d.mDownloadData[d.replies[s].id].pNetworkReply = s
        /\ d.mDownloadData[d.replies[s].id].pTimeoutTimer = s
        /\ s \in d.timers
    BY <2>1, <1>1 DEF OwnEntry, Known
  <2>3. d.replies[s].id # id
    BY <2>1, <2>2, <1>2
  <2> QED
    BY <2>1, <2>2, <2>3, <1>9 DEF Known
<1>12. OwnReply(e)
  <2> SUFFICES ASSUME NEW i \in DOMAIN e.mDownloadData, e.mDownloadData[i].pNetworkReply # None
               PROVE  /\ e.replies[e.mDownloadData[i].pNetworkReply] # None
                      /\ e.replies[e.mDownloadData[i].pNetworkReply].id = i
    BY DEF OwnReply
  <2>1. i \in DOMAIN d.mDownloadData /\ i # id /\ e.mDownloadData[i] = d.mDownloadData[i]
    BY <1>9
  <2>2. PICK s : s = d.mDownloadData[i].pNetworkReply
    OBVIOUS
  <2>3. d.replies[s] # None /\ d.replies[s].id = i
    BY <2>1, <2>2, <1>1 DEF OwnReply
  <2>4. s \in Reply
    BY <2>1, <2>2, <1>5 DEF Entry
  <2>5. s # r
    BY <2>1, <2>3
  <2>6. e.replies[s] = d.replies[s]
    BY <2>4, <2>5, <1>3, <1>9
  <2> QED
    BY <2>1, <2>2, <2>3, <2>6
<1>13. TimersOfReplies(e)
  BY <1>1, <1>3, <1>5, <1>9 DEF TimersOfReplies
<1>14. ManifestsOfVersions(e)
  BY <1>1, <1>9 DEF ManifestsOfVersions, Known
<1>15. ~Known(e, id)
  BY <1>9 DEF Known
<1> QED
  BY <1>9, <1>11, <1>12, <1>13, <1>14, <1>15 DEF Consistent

(* A download that timed out leaves nothing of its own but the empty entry *)
(* that the handler makes after abort(), and the invocation that it queues.*)
LEMMA TimedOutConsistent ==
  ASSUME NEW d, Consistent(d), NEW r \in d.timers, NEW e, e = TimedOut(d, r)
  PROVE  Consistent(e)
<1>1. d \in Downloader /\ OwnEntry(d) /\ TimersOfReplies(d)
  BY DEF Consistent
<1>2. r \in Reply /\ d.replies[r] # None
  BY <1>1, Fields DEF TimersOfReplies
<1>3. PICK asked : asked = d.replies[r]
  OBVIOUS
<1>4. asked \in Asked
  <2>1. d.replies \in [Reply -> Asked \cup {None}]
    BY <1>1, Fields
  <2> QED
    BY <2>1, <1>2, <1>3
<1>5. PICK ended : ended = Ended(d, asked.id)
  OBVIOUS
<1>6. Consistent(ended) /\ ~Known(ended, asked.id)
  BY <1>2, <1>3, <1>5, EndedConsistent
<1>7. Ended([d EXCEPT !.timers = @ \ {r}], asked.id) = ended
  <2>1. d = [mDownloadData |-> d.mDownloadData, replies |-> d.replies, timers |-> d.timers,
             files |-> d.files, queued |-> d.queued]
    BY <1>1, OfItsFields
  <2>2. PICK f : f = [d EXCEPT !.timers = @ \ {r}]
    OBVIOUS
  <2>3. f = [mDownloadData |-> d.mDownloadData, replies |-> d.replies, timers |-> d.timers \ {r},
             files |-> d.files, queued |-> d.queued]
    BY <2>1, <2>2
  <2>4. At(f, asked.id) = At(d, asked.id)
    BY <2>3 DEF At, Known
  <2>5. At(d, asked.id).pTimeoutTimer = r
    BY <1>1, <1>2, <1>3 DEF OwnEntry, At, Known
  <2>6. PICK replies : replies = [s \in Reply |-> IF s = At(d, asked.id).pNetworkReply
                                                  THEN None ELSE d.replies[s]]
    OBVIOUS
  <2>7. [d EXCEPT !.timers = @ \ {r}, !.replies = replies]
          = [mDownloadData |-> d.mDownloadData, replies |-> replies, timers |-> d.timers \ {r},
             files |-> d.files, queued |-> d.queued]
    <3>1. [d EXCEPT !.timers = @ \ {r}, !.replies = replies] = [f EXCEPT !.replies = replies]
      BY <2>2
    <3> QED
      BY <3>1, <2>3
  <2>8. [f EXCEPT !.timers = @ \ {r}, !.replies = replies]
          = [mDownloadData |-> d.mDownloadData, replies |-> replies, timers |-> d.timers \ {r},
             files |-> d.files, queued |-> d.queued]
    <3>1. f.timers \ {r} = d.timers \ {r}
      BY <2>3
    <3>2. PICK c : c = [f EXCEPT !.timers = @ \ {r}]
      OBVIOUS
    <3>3. c = f
      BY <3>1, <3>2, <2>3
    <3>4. [f EXCEPT !.timers = @ \ {r}, !.replies = replies] = [c EXCEPT !.replies = replies]
      BY <3>2
    <3> QED
      BY <3>3, <3>4, <2>3
  <2>9. f.replies = d.replies
    BY <2>3
  <2>10. ended = Without([d EXCEPT !.timers = @ \ {r}, !.replies = replies], asked.id)
    BY <2>5, <2>6, <1>5 DEF Ended
  <2>11. Ended(f, asked.id)
           = Without([f EXCEPT !.timers = @ \ {r}, !.replies = replies], asked.id)
    BY <2>4, <2>5, <2>6, <2>9 DEF Ended
  <2> QED
    BY <2>2, <2>7, <2>8, <2>10, <2>11
<1>8. CASE At(d, asked.id).mRetryTimes = cCount_RetryTimes
  BY <1>3, <1>6, <1>7, <1>8 DEF TimedOut
<1>9. CASE At(d, asked.id).mRetryTimes # cCount_RetryTimes
  <2>1. PICK f : f = With(ended, asked.id, DefaultEntry)
    OBVIOUS
  <2>2. e = [f EXCEPT !.queued = @ \cup {asked}]
    BY <2>1, <1>3, <1>7, <1>9 DEF TimedOut
  <2>3. asked.id \in Ids
    BY <1>4 DEF Asked, Ids
  <2>4. ended \in Downloader
    BY <1>6 DEF Consistent
  <2>5. /\ f \in Downloader
        /\ DOMAIN f.mDownloadData = DOMAIN ended.mDownloadData \cup {asked.id}
        /\ f.mDownloadData[asked.id] = DefaultEntry
        /\ \A i \in DOMAIN ended.mDownloadData :
             i # asked.id => f.mDownloadData[i] = ended.mDownloadData[i]
        /\ f.replies = ended.replies
        /\ f.timers = ended.timers
    BY <2>1, <2>3, <2>4, DefaultEntryTyped, PutEntry
  <2>6. e = [mDownloadData |-> f.mDownloadData, replies |-> f.replies, timers |-> f.timers,
             files |-> f.files, queued |-> f.queued \cup {asked}]
    <3>1. f = [mDownloadData |-> f.mDownloadData, replies |-> f.replies, timers |-> f.timers,
               files |-> f.files, queued |-> f.queued]
      BY <2>5, OfItsFields
    <3> QED
      BY <3>1, <2>2
  <2>7. /\ f.replies \in [Reply -> Asked \cup {None}]
        /\ f.timers \subseteq Reply
        /\ f.files \in [Ids -> 0 .. MaxVersion \cup {None}]
        /\ f.queued \cup {asked} \subseteq Asked
        /\ f.mDownloadData = [i \in DOMAIN f.mDownloadData |-> f.mDownloadData[i]]
        /\ DOMAIN f.mDownloadData \subseteq Ids
        /\ \A i \in DOMAIN f.mDownloadData : f.mDownloadData[i] \in Entry
    BY <2>5, <1>4, Fields
  <2>8. e \in Downloader
    BY <2>6, <2>7, IsDownloader
  <2>9. /\ e.mDownloadData = f.mDownloadData
        /\ e.replies = ended.replies
        /\ e.timers = ended.timers
    BY <2>5, <2>6
  <2>10. asked.id \notin DOMAIN ended.mDownloadData
    BY <1>6 DEF Known
  <2>11. \A i \in DOMAIN e.mDownloadData :
           \/ i \in DOMAIN ended.mDownloadData /\ e.mDownloadData[i] = ended.mDownloadData[i]
           \/ e.mDownloadData[i] = DefaultEntry
    BY <2>5, <2>9, <2>10
  <2>12. \A i \in DOMAIN ended.mDownloadData :
           i \in DOMAIN e.mDownloadData /\ e.mDownloadData[i] = ended.mDownloadData[i]
    BY <2>5, <2>9, <2>10
  <2>13. /\ OwnEntry(ended) /\ OwnReply(ended)
         /\ TimersOfReplies(ended) /\ ManifestsOfVersions(ended)
    BY <1>6 DEF Consistent
  <2>14. OwnEntry(e)
    BY <2>9, <2>12, <2>13 DEF OwnEntry, Known
  <2>15. DefaultEntry.pNetworkReply = None /\ DefaultEntry.mFileContents = Empty
    BY DEF DefaultEntry
  <2>16. OwnReply(e)
    BY <2>9, <2>11, <2>13, <2>15 DEF OwnReply
  <2>17. TimersOfReplies(e)
    BY <2>9, <2>13 DEF TimersOfReplies
  <2>18. ManifestsOfVersions(e)
    BY <2>11, <2>13, <2>15 DEF ManifestsOfVersions, Known
  <2> QED
    BY <2>8, <2>14, <2>16, <2>17, <2>18 DEF Consistent
<1> QED
  BY <1>8, <1>9

(* What was queued is asked for, like everything else, by fDownload. *)
LEMMA DequeuedConsistent ==
  ASSUME NEW d, Consistent(d), NEW asked \in d.queued, NEW removed \in BOOLEAN,
         NEW e, e = Dequeued(d, asked, removed)
  PROVE  Consistent(e)
<1>1. d \in Downloader
  BY DEF Consistent
<1>2. PICK f : f = [d EXCEPT !.queued = @ \ {asked}]
  OBVIOUS
<1>3. f = [mDownloadData |-> d.mDownloadData, replies |-> d.replies, timers |-> d.timers,
           files |-> d.files, queued |-> d.queued \ {asked}]
  <2>1. d = [mDownloadData |-> d.mDownloadData, replies |-> d.replies, timers |-> d.timers,
             files |-> d.files, queued |-> d.queued]
    BY <1>1, OfItsFields
  <2> QED
    BY <2>1, <1>2
<1>4. /\ d.replies \in [Reply -> Asked \cup {None}]
      /\ d.timers \subseteq Reply
      /\ d.files \in [Ids -> 0 .. MaxVersion \cup {None}]
      /\ d.queued \ {asked} \subseteq Asked
      /\ d.mDownloadData = [i \in DOMAIN d.mDownloadData |-> d.mDownloadData[i]]
      /\ DOMAIN d.mDownloadData \subseteq Ids
      /\ \A i \in DOMAIN d.mDownloadData : d.mDownloadData[i] \in Entry
  BY <1>1, Fields
<1>5. f \in Downloader
  BY <1>3, <1>4, IsDownloader
<1>6. /\ f.mDownloadData = d.mDownloadData
      /\ f.replies = d.replies
      /\ f.timers = d.timers
  BY <1>3
<1>7. Consistent(f)
  BY <1>5, <1>6 DEF Consistent, OwnEntry, OwnReply, TimersOfReplies, ManifestsOfVersions, Known
<1>8. asked \in Asked
  BY <1>1, Fields
<1>9. e = fDownload(f, asked, removed)
  BY <1>2 DEF Dequeued
<1> QED
  BY <1>7, <1>8, <1>9, DownloadConsistent

-----------------------------------------------------------------------------
(* The updater starts with nothing under way. *)
LEMMA InitIInv == Init => IInv
<1> SUFFICES ASSUME Init
             PROVE  IInv
  OBVIOUS
<1>1. PICK files \in [Ids -> {0, None}] : mDownloader = NewDownloader(files)
  BY DEF Init, Ids
<1>2. mDownloader = [mDownloadData |-> <<>>, replies |-> [r \in Reply |-> None], timers |-> {},
                     files |-> files, queued |-> {}]
  BY <1>1 DEF NewDownloader
<1>3. DOMAIN << >> = {} /\ << >> = [i \in {} |-> i]
  OBVIOUS
<1>4. files \in [Ids -> 0 .. MaxVersion \cup {None}]
  BY <1>1, UpdaterConstants
<1>5. mDownloader \in Downloader
  <2>1. << >> = [i \in DOMAIN << >> |-> << >>[i]]
    BY <1>3
  <2> QED
    BY <2>1, <1>2, <1>3, <1>4, IsDownloader
<1>6. Consistent(mDownloader)
  BY <1>2, <1>3, <1>5
  DEF Consistent, OwnEntry, OwnReply, TimersOfReplies, ManifestsOfVersions, Known
<1>7. TypeOK
  BY <1>5, UpdaterConstants DEF Init, TypeOK, Manifest
<1> QED
  BY <1>6, <1>7 DEF IInv

(* The disk counts its failures up to the bound. *)
LEMMA DiskTyped ==
  ASSUME NEW ok \in BOOLEAN, errors \in 0 .. MaxErrors, Disk(ok)
  PROVE  errors' \in 0 .. MaxErrors
BY UpdaterConstants DEF Disk

(* Everything a step does not say of the types follows from the downloader *)
(* it leaves, and the manifests it sets.                                   *)
LEMMA NextIInv == IInv /\ [Next]_vars => IInv'
<1> SUFFICES ASSUME IInv, [Next]_vars
             PROVE  IInv'
  OBVIOUS
<1>1. TypeOK /\ Consistent(mDownloader)
  BY DEF IInv
<1>2. ASSUME Consistent(mDownloader'),
             mCheckUpdatesTimer' \in BOOLEAN,
             mCurrentVersionManifest' \in Manifest,
             mLatestVersionManifest' \in Manifest,
             installed' \in Manifest,
             published' \in 0 .. MaxVersion,
             errors' \in 0 .. MaxErrors
      PROVE  IInv'
  BY <1>2
  DEF IInv, TypeOK, Consistent, OwnEntry, OwnReply, TimersOfReplies, ManifestsOfVersions, Known
<1>3. /\ mCheckUpdatesTimer \in BOOLEAN
      /\ mCurrentVersionManifest \in Manifest
      /\ mLatestVersionManifest \in Manifest
      /\ installed \in Manifest
      /\ published \in 0 .. MaxVersion
      /\ errors \in 0 .. MaxErrors
  BY <1>1 DEF TypeOK
<1>4. ASSUME NEW r \in Reply, InFlight(r)
      PROVE  /\ mDownloader.replies[r] \in Asked
             /\ mDownloader.replies[r] # None
             /\ At(mDownloader, mDownloader.replies[r].id) \in Entry
  <2>1. mDownloader \in Downloader
    BY <1>1 DEF Consistent
  <2>2. mDownloader.replies \in [Reply -> Asked \cup {None}]
    BY <2>1, Fields
  <2> QED
    BY <2>1, <2>2, <1>4, EntryFound DEF InFlight
<1>5. CASE fDownloadLatestVersionsList
  <2>1. PICK removed \in BOOLEAN :
          /\ Disk(removed)
          /\ mDownloader' = fDownload(mDownloader, [id |-> cFileName_Versions, url |-> 0], removed)
    BY <1>5 DEF fDownloadLatestVersionsList
  <2>2. [id |-> cFileName_Versions, url |-> 0] \in Asked
    BY UpdaterConstants DEF Asked
  <2>3. Consistent(mDownloader')
    BY <2>1, <2>2, <1>1, DownloadConsistent
  <2> QED
    BY <2>1, <2>3, <1>2, <1>3, <1>5, DiskTyped DEF fDownloadLatestVersionsList
<1>6. ASSUME NEW r \in Reply, DataArrives(r)
      PROVE  IInv'
  <2>1. PICK content : content = IF IsList(r) THEN published ELSE Url(r)
    OBVIOUS
  <2>2. InFlight(r) /\ Found(r) /\ mDownloader' = Progress(mDownloader, r, content)
    BY <2>1, <1>6 DEF DataArrives
  <2>3. content \in 0 .. MaxVersion
    BY <2>1, <2>2, <1>3, UpdaterConstants DEF Found
  <2>4. mDownloader.replies[r].id = cFileName_VersionManifest => content \in Version
    BY <2>1, <2>2, <1>3, UpdaterConstants
       DEF Found, IsList, Version, cFileName_Versions, cFileName_VersionManifest
  <2>5. mDownloader.replies[r] # None
    BY <2>2 DEF InFlight
  <2>6. Consistent(mDownloader')
    BY <2>2, <2>3, <2>4, <2>5, <1>1, ProgressConsistent
  <2> QED
    BY <2>6, <1>2, <1>3, <1>6 DEF DataArrives
<1>7. ASSUME NEW r \in Reply, Finished(r)
      PROVE  IInv'
  <2>1. PICK id : id = mDownloader.replies[r].id
    OBVIOUS
  <2>2. PICK written \in BOOLEAN, removed \in BOOLEAN :
          /\ Disk(written /\ removed)
          /\ mDownloader' = FinishedWith(mDownloader, id, written, removed).downloader
          /\ mCurrentVersionManifest' = FinishedWith(mDownloader, id, written, removed).current
          /\ mLatestVersionManifest' = FinishedWith(mDownloader, id, written, removed).latest
    BY <2>1, <1>7 DEF Finished
  <2>3. InFlight(r) /\ At(mDownloader, id).mFileContents # Empty
    BY <2>1, <1>7 DEF Finished, Arrived
  <2>4. PICK saved : saved = Saved(mDownloader, id, written)
    OBVIOUS
  <2>5. mDownloader.replies[r] # None
    BY <2>3 DEF InFlight
  <2>6. /\ Consistent(saved)
        /\ saved.replies = mDownloader.replies
        /\ id \in Ids
        /\ written => saved.files[id] \in 0 .. MaxVersion
        /\ written /\ id = cFileName_VersionManifest => saved.files[id] \in Version
    BY <2>1, <2>3, <2>4, <2>5, <1>1, SavedConsistent
  <2>7. PICK told : told = IF written THEN fProcessFinishedDownload(saved, id, removed)
                           ELSE Stays(saved)
    OBVIOUS
  <2>8. /\ Consistent(told.downloader)
        /\ told.downloader.replies[r] = mDownloader.replies[r]
        /\ told.current \in Manifest
        /\ told.latest \in Manifest
        /\ told = [downloader |-> told.downloader, current |-> told.current,
                   latest |-> told.latest]
    <3>1. CASE ~written
      BY <3>1, <2>6, <2>7, <1>3 DEF Stays
    <3>2. CASE written /\ id # cFileName_Versions
      <4>1. id = cFileName_VersionManifest
        BY <3>2, <2>6 DEF Ids
      <4>2. told = [downloader |-> saved, current |-> mCurrentVersionManifest,
                    latest |-> saved.files[id]]
        BY <3>2, <2>7 DEF fProcessFinishedDownload
      <4> QED
        BY <4>1, <4>2, <3>2, <2>6, <1>3 DEF Manifest
    <3>3. CASE written /\ id = cFileName_Versions
      <4>1. PICK after : after = fVerifyIfNewUpdateIsAvailable(saved, saved.files[id], removed)
        OBVIOUS
      <4>2. told = [downloader |-> after, current |-> installed, latest |-> mLatestVersionManifest]
        BY <4>1, <3>3, <2>7 DEF fProcessFinishedDownload
      <4>3. [id |-> cFileName_VersionManifest, url |-> saved.files[id]] \in Asked
        BY <3>3, <2>6 DEF Asked
      <4>4. \/ after = saved
            \/ after = fDownload(saved, [id |-> cFileName_VersionManifest,
                                         url |-> saved.files[id]], removed)
        BY <4>1 DEF fVerifyIfNewUpdateIsAvailable, fDownloadManifest
      <4>5. Consistent(after) /\ after.replies[r] = mDownloader.replies[r]
        BY <4>3, <4>4, <2>5, <2>6, DownloadConsistent
      <4> QED
        BY <4>2, <4>5, <1>3
    <3> QED
      BY <3>1, <3>2, <3>3
  <2>9. FinishedWith(mDownloader, id, written, removed)
          = [told EXCEPT !.downloader = Ended(told.downloader, id)]
    BY <2>4, <2>7 DEF FinishedWith
  <2>10. /\ mDownloader' = Ended(told.downloader, id)
         /\ mCurrentVersionManifest' = told.current
         /\ mLatestVersionManifest' = told.latest
    BY <2>2, <2>8, <2>9
  <2>11. Consistent(mDownloader')
    BY <2>1, <2>5, <2>8, <2>10, EndedConsistent
  <2>12. errors' \in 0 .. MaxErrors
    BY <2>2, <1>3, DiskTyped
  <2> QED
    BY <2>8, <2>10, <2>11, <2>12, <1>2, <1>3, <1>7 DEF Finished
<1>8. ASSUME NEW r \in Reply, NetworkError(r)
      PROVE  IInv'
  <2>1. /\ mDownloader.replies[r] # None
        /\ mDownloader' = Ended(mDownloader, mDownloader.replies[r].id)
    BY <1>8 DEF NetworkError, InFlight
  <2>2. Consistent(mDownloader')
    BY <2>1, <1>1, EndedConsistent
  <2>3. errors' \in 0 .. MaxErrors
    BY <1>3, <1>8, UpdaterConstants DEF NetworkError
  <2> QED
    BY <2>2, <2>3, <1>2, <1>3, <1>8 DEF NetworkError
<1>9. ASSUME NEW r \in Reply, Timeout(r)
      PROVE  IInv'
  <2>1. r \in mDownloader.timers /\ mDownloader' = TimedOut(mDownloader, r)
    BY <1>9 DEF Timeout
  <2>2. Consistent(mDownloader')
    BY <2>1, <1>1, TimedOutConsistent
  <2> QED
    BY <2>2, <1>2, <1>3, <1>9 DEF Timeout
<1>10. ASSUME NEW asked \in mDownloader.queued, Invoked(asked)
       PROVE  IInv'
  <2>1. PICK removed \in BOOLEAN :
          /\ Disk(removed)
          /\ mDownloader' = Dequeued(mDownloader, asked, removed)
    BY <1>10 DEF Invoked
  <2>2. Consistent(mDownloader')
    BY <2>1, <1>1, DequeuedConsistent
  <2> QED
    BY <2>1, <2>2, <1>2, <1>3, <1>10, DiskTyped DEF Invoked
<1>11. CASE Publish
  BY <1>1, <1>2, <1>3, <1>11, UpdaterConstants DEF Publish
<1>12. CASE UNCHANGED vars
  BY <1>1, <1>2, <1>3, <1>12 DEF vars
<1> QED
  BY <1>5, <1>6, <1>7, <1>8, <1>9, <1>10, <1>11, <1>12 DEF Next, Ends

-----------------------------------------------------------------------------
(* Everything the proofs use holds in every state. *)
THEOREM Invariance == Spec => []IInv
BY InitIInv, NextIInv, PTL DEF Spec

(* The downloader and the manifests always have their types: what is saved *)
(* as a manifest is the manifest of a version, and never nothing           *)
(* (NDownloader.cpp 38-73, NUpdateController.cpp 73-124).                  *)
THEOREM TypeCorrect == Spec => []TypeOK
<1>1. IInv => TypeOK
  BY DEF IInv
<1> QED
  BY <1>1, Invariance, PTL

(* Two downloads never share an entry, whatever the network, the disk and  *)
(* the timers do: the handlers of a reply find their own data, and stop    *)
(* their own timer (NDownloader.cpp 38-93).                                *)
THEOREM EachReplyHasItsEntry == Spec => []RepliesHaveTheirEntry
<1>1. IInv => RepliesHaveTheirEntry
  BY DEF IInv, Consistent, OwnEntry, OwnReply, RepliesHaveTheirEntry, InFlight, At, Known
<1> QED
  BY <1>1, Invariance, PTL
=============================================================================
