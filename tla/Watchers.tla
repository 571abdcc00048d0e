------------------------------ MODULE Watchers ------------------------------
(* The watchers: the loaders of single images, which ImageLoaders has, and   *)
(* the two that find images for them, F-list's runs and Reddit's updates, as *)
(* instances.  They share no state; the workers run all three.               *)
EXTENDS ImageLoaders

CONSTANTS RunId, NoRun, LastImage, GalleryPage, MaxRunFault,           \* of FListRuns
          LastPost, ListingPage, MaxQueued, MaxUpdateFault             \* of RedditWatch

VARIABLES published, listed, files, open, done, gone, coll, runFaults, shifted, refused, taken,
          disabled, position, recent, updates, upd, queued, had, dead, updateFaults

F == INSTANCE FListRuns WITH
        Collector <- Worker, Run <- RunId, PageSize <- GalleryPage, MaxFault <- MaxRunFault,
        faults <- runFaults
R == INSTANCE RedditWatch WITH
        Updater <- Worker, PageSize <- ListingPage, MaxFault <- MaxUpdateFault,
        stored <- had, faults <- updateFaults

gallery == <<published, listed>>
flist == <<files, open, done, gone, coll, runFaults, shifted, refused, taken>>
reddit == <<disabled, position, recent, updates, upd, queued, had, dead, updateFaults>>

\* FListRuns: no image of the gallery falls between two runs.
NothingOutOfReach == F!IInv /\ F!NothingOutOfReach
\* RedditWatch: no post is passed over by updates that overlap or fail.
NothingPassedOver == R!IInv /\ R!NothingPassedOver
=============================================================================
