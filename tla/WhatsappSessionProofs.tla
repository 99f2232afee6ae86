----------------------- MODULE WhatsappSessionProofs -----------------------
(***************************************************************************)
(* Theorems about WhatsappSession: what the cloud holds, for any number of *)
(* accounts, writes, failing calls, restarts and refused removals.         *)
(***************************************************************************)
EXTENDS WhatsappSession, TLAPS

\* A directory that is not there is not taken for one with files.
LEMMA NoneUnseen ==
  ASSUME SeenOnly
  PROVE  None \notin Seen
  BY SessionAssumption DEF SeenOnly, Seen

\* Nothing is linked, copied or removed at first.
LEMMA InitSessionIInv == SessionInit => SessionIInv
  BY DEF SessionInit, SessionIInv, SeenOnly, LockInOrder, Copies, NothingOfGone, CopyMatchesPrint,
         BelievedCopyIsTheCopy, LoggedOutStaysOut

\* The owner, the cloud, the manifest and the plugin: the files only ever become ones unlike all
\* before, or go, and the cloud's copy only goes.
LEMMA WorldKeeps ==
  ASSUME SessionIInv, External \/ ManifestArrives \/ PluginFollows \/ OpenClawStarts
  PROVE  SessionIInv'
  <1> USE NoneUnseen
      DEF SessionIInv, SeenOnly, Seen, LockInOrder, Copies, NothingOfGone, CopyMatchesPrint,
          BelievedCopyIsTheCopy, LoggedOutStaysOut, cloudSide, plugin, lock, bounds
  <1>1. CASE OwnerDisconnects  BY <1>1 DEF OwnerDisconnects
  <1>2. CASE OwnerConnects  BY <1>2 DEF OwnerConnects
  <1>3. CASE OwnerLinks  BY <1>3 DEF OwnerLinks
  <1>4. CASE WriteBegins  BY <1>4 DEF WriteBegins
  <1>5. CASE WriteEnds  BY <1>5 DEF WriteEnds
  <1>6. CASE SocketOpens  BY <1>6 DEF SocketOpens
  <1>7. CASE ManifestArrives  BY <1>7 DEF ManifestArrives
  <1>8. CASE PluginFollows  BY <1>8 DEF PluginFollows
  <1>9. CASE OpenClawStarts  BY <1>9 DEF OpenClawStarts
  <1> QED  BY <1>1, <1>2, <1>3, <1>4, <1>5, <1>6, <1>7, <1>8, <1>9 DEF External

\* The loop: the fingerprint is taken first, so files that still have it are what was read; only
\* an upload that was answered makes it the one believed.
LEMMA CopyKeeps ==
  ASSUME SessionIInv, TickBegins \/ CopyStep \/ TakesFingerprint \/ RemovalRefused
  PROVE  SessionIInv'
  <1> USE NoneUnseen
      DEF SessionIInv, SeenOnly, Seen, LockInOrder, Copies, NothingOfGone, CopyMatchesPrint,
          BelievedCopyIsTheCopy, LoggedOutStaysOut, cloudSide, plugin, lock, bounds, Release,
          GivesUpCopy
  <1>1. CASE TickBegins  BY <1>1 DEF TickBegins, LockTaken
  <1>2. CASE AsksManifest  BY <1>2 DEF AsksManifest
  <1>3. CASE RemovesDisconnected  BY <1>3 DEF RemovesDisconnected
  <1>4. CASE ReadsCreds  BY <1>4 DEF ReadsCreds
  <1>5. CASE ReadsKeys  BY <1>5 DEF ReadsKeys
  <1>6. CASE Uploads  BY <1>6 DEF Uploads, Recorded, Mishap, NoMishap
  <1>7. CASE TakesFingerprint  BY <1>7 DEF TakesFingerprint, Fingerprint
  <1>8. CASE RemovalRefused  BY <1>8 DEF RemovalRefused
  <1> QED  BY <1>1, <1>2, <1>3, <1>4, <1>5, <1>6, <1>7, <1>8 DEF CopyStep

\* The commands: a logout removes with the lock in hand, so no upload is under way when the cloud
\* deletes, and what is written meanwhile is of an account it leaves alone.
LEMMA CommandsKeep ==
  ASSUME SessionIInv,
         \/ StopCommand \/ StopCopies \/ LogoutCommand
         \/ LogoutRemoves \/ LogoutRefused \/ LogoutDeletes
  PROVE  SessionIInv'
  <1> USE NoneUnseen
      DEF SessionIInv, SeenOnly, Seen, LockInOrder, Copies, NothingOfGone, CopyMatchesPrint,
          BelievedCopyIsTheCopy, LoggedOutStaysOut, cloudSide, plugin, lock, bounds
  <1>1. CASE StopCommand  BY <1>1 DEF StopCommand
  <1>2. CASE StopCopies  BY <1>2 DEF StopCopies, LockTaken
  <1>3. CASE LogoutCommand  BY <1>3 DEF LogoutCommand, Mishap, NoMishap
  <1>4. CASE LogoutRemoves  BY <1>4 DEF LogoutRemoves, LogoutMayRemove
  <1>5. CASE LogoutRefused  BY <1>5 DEF LogoutRefused, LogoutMayRemove
  <1>6. CASE LogoutDeletes  BY <1>6 DEF LogoutDeletes, Release, Mishap, NoMishap
  <1> QED  BY <1>1, <1>2, <1>3, <1>4, <1>5, <1>6

\* A restart forgets what the loop believed, and a boot brings back what the cloud holds.
LEMMA MachineKeeps ==
  ASSUME SessionIInv, Boots \/ \E fresh \in BOOLEAN : MachineRestarts(fresh)
  PROVE  SessionIInv'
  <1> USE NoneUnseen
      DEF SessionIInv, SeenOnly, Seen, LockInOrder, Copies, NothingOfGone, CopyMatchesPrint,
          BelievedCopyIsTheCopy, LoggedOutStaysOut, cloudSide, plugin, lock, bounds
  <1>1. CASE Boots  BY <1>1 DEF Boots, Restored, Mishap, NoMishap
  <1>2. ASSUME NEW fresh \in BOOLEAN, MachineRestarts(fresh)
        PROVE  SessionIInv'
    BY <1>2 DEF MachineRestarts, Release
  <1> QED  BY <1>1, <1>2

\* The inductive invariant holds in every behaviour.
THEOREM Invariant == SessionSpec => []SessionIInv
  <1>1. SessionIInv /\ [SessionNext]_sessionVars => SessionIInv'
    <2> SUFFICES ASSUME SessionIInv, [SessionNext]_sessionVars PROVE SessionIInv'  OBVIOUS
    <2>1. CASE UNCHANGED sessionVars
      BY <2>1 DEF sessionVars, SessionIInv, SeenOnly, Seen, LockInOrder, Copies, NothingOfGone,
                  CopyMatchesPrint, BelievedCopyIsTheCopy, LoggedOutStaysOut
    <2>2. CASE SessionNext
      BY <2>2, WorldKeeps, CopyKeeps, CommandsKeep, MachineKeeps DEF SessionNext
    <2> QED  BY <2>1, <2>2
  <1> QED  BY InitSessionIInv, <1>1, PTL DEF SessionSpec

\* When the loop finds the session unchanged since its last upload, those very files are the
\* cloud's copy, whatever the plugin wrote while they were read.
THEOREM BelievedIsHeld == SessionSpec => []BelievedCopyIsTheCopy
  <1>1. SessionIInv => BelievedCopyIsTheCopy  BY DEF SessionIInv
  <1> QED  BY <1>1, Invariant, PTL

\* No account that was logged out here and deleted in the cloud comes back in the cloud's copy.
THEOREM GoneStaysGone == SessionSpec => []LoggedOutStaysOut
  <1>1. SessionIInv => LoggedOutStaysOut  BY DEF SessionIInv
  <1> QED  BY <1>1, Invariant, PTL

=============================================================================
