------------------------------ MODULE SiteFeeds ------------------------------
(* What the site clients keep up to date: the credential of a linked account, *)
(* which CredentialRefresh has, and the posts of Bluesky, an instance.  They  *)
(* share no state.                                                            *)
EXTENDS CredentialRefresh

CONSTANTS Post, Images, Worker, None, MaxFault    \* of BlueskyIngest

VARIABLES bsky, messages, ingest, jobs, work, posts, images, submitted, skipped, forgotten,
          again, dead, faults

B == INSTANCE BlueskyIngest WITH site <- bsky, row <- posts, lost <- forgotten

feed == <<bsky, messages, ingest, jobs, work, posts, images, submitted, skipped, forgotten, again,
          dead, faults>>

\* BlueskyIngest: a deleted post is hidden (which the inductive invariant says
\* while its messages are on their way, too),
DeletedIsHidden == B!IInv /\ B!DeletedIsHidden
\* one that was stored is whole, its images submitted, and once,
StoredIsSubmitted == B!StoredIsSubmitted /\ B!SubmittedOnce
\* and every post arrives.
PostsArrive == B!PostsArrive
=============================================================================
