-------------------------------- MODULE Links --------------------------------
(* The accounts a user links: Bluesky, which BlueskyLink has, and instances   *)
(* for Twitter accounts, their archives and Patreon campaigns. They share no  *)
(* state.                                                                     *)
EXTENDS BlueskyLink

CONSTANTS Handler, MaxTweet, MaxToken, MaxRow, MaxAccountFault,  \* of TwitterAccount,
          Chunk, Archive, Tweet, Parallel, Limit, Buffer, Request, MaxPost,
          MaxArchiveFault,                                       \* of TwitterArchive,
          User, Account, Visitor, Deleted, MaxHook,              \* of PatreonCampaign,
          None                                                   \* and of both

VARIABLES tweets, row, bRows, data, want, bAdds, bWork, tokens, queued, bStarted, stuck,
          overlapped, bFaults,
          upload, rows, objects, request, posts, jobs, load, sink, saved, loading,
          dropped, given, late, cFaults,
          account, hooks, visits, logged, last, dirty

A == INSTANCE TwitterAccount WITH
        MaxFault <- MaxAccountFault, rows <- bRows, adds <- bAdds, work <- bWork,
        started <- bStarted, faults <- bFaults
Z == INSTANCE TwitterArchive WITH
        MaxFault <- MaxArchiveFault, failed <- given, faults <- cFaults
P == INSTANCE PatreonCampaign WITH
        Visit <- Visitor, visit <- visits

tAccount == <<tweets, row, bRows, data, want, bAdds, bWork, tokens, queued, bStarted, stuck,
              overlapped, bFaults>>
archive == <<upload, rows, objects, request, posts, jobs, load, sink, saved, loading,
             dropped, given, late, cFaults>>
campaign == <<account, hooks, visits, logged, last, dirty>>

\* TwitterAccount: no tweet below newest_id is passed over;
NothingSkipped == A!TypeOK /\ A!NothingSkipped
\* a token or a flag is lost only to handlers that overlap.
LostOnlyByOverlap == A!LostOnlyByOverlap
\* TwitterArchive: the size limit bounds a user's chunks;
ChunksBounded == Z!TypeOK /\ Z!ChunksBounded
\* an account does not stay at importing, and one marked complete is saved.
ImportingEnds == Z!CompleteIsSaved /\ Z!ImportingEnds
\* PatreonCampaign: the account linked last receives the webhooks, of which a
\* callback alone leaves one.
LastLinkReceives == P!TypeOK /\ P!LastLinkReceives /\ P!OneWebhookAlone
=============================================================================
