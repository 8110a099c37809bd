---------------------------------- MODULE Hub ----------------------------------
(***************************************************************************)
(* One hub process: its submit route and tables, its read routes and       *)
(* follow lists, the app-key cache, the outgoing connections and the media *)
(* store.  They share the clock and the process: a restart takes all that  *)
(* is in memory, and leaves the database and the disk.                     *)
(***************************************************************************)
EXTENDS HubViews, AppKeys, PeerLinks, MediaFiles

hubVars == <<featureVars, followVars, keyVars, linkVars, mediaVars, now>>

ASSUME TalesAssumption == \A tale \in Tales : tale.seeds \in Seq(DOMAIN HubAt)

\* A tale says what happens to each part.
HubInit ==
    /\ ClockInit
    /\ \E tale \in Tales :
         /\ FeatureInit(tale)
         /\ seeds = tale.seeds /\ asks = tale.asks /\ dropped = tale.drops /\ uploads = tale.uploads
         /\ clicks = tale.clicks
    /\ FollowInit /\ KeysInit /\ LinksInit /\ MediaInit

Restart ==
    /\ faults > 0 /\ faults' = faults - 1
    /\ open' = {}
    /\ KeysLost /\ LinksLost /\ MediaLost
    /\ UNCHANGED <<db, left, abroad, pushed, accepted, again, followVars, now>>

HubNext ==
    \/ FeatureStep /\ UNCHANGED <<followVars, keyVars, linkVars, mediaVars>>
    \/ FollowStep /\ UNCHANGED <<open, left, abroad, pushed, accepted, again, faults, now,
                                 keyVars, linkVars, mediaVars>>
    \/ KeyStep /\ UNCHANGED <<featureVars, followVars, linkVars, mediaVars>>
    \/ LinkStep /\ UNCHANGED <<featureVars, followVars, keyVars, mediaVars, now>>
    \/ MediaStep /\ UNCHANGED <<featureVars, followVars, keyVars, linkVars, now>>
    \/ KeysTick /\ UNCHANGED <<featureVars, followVars, linkVars, mediaVars>>
    \/ Restart

HubSpec == HubInit /\ [][HubNext]_hubVars

----------------------------------------------------------------------------
\* The types, the primary keys of every table, and the listings that must agree.
HubTypeOK == FeatureTypeOK /\ KeyTypeOK /\ LinksTypeOK /\ MediaTypeOK
=============================================================================
