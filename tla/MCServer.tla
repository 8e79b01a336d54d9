-------------------------------- MODULE MCServer --------------------------------
(***************************************************************************)
(* The parts that share no state with one another, each under all the      *)
(* faults of its own: publishing, the settings, the profile, access        *)
(* requests, sessions and feed discovery.  A behaviour is one of the part  *)
(* that acts in it; the others stay as they start, so that their states    *)
(* add up and do not multiply.                                             *)
(***************************************************************************)
EXTENDS MCPublishing, Settings, Access, Sessions, Feeds, Profile, TLC

CONSTANTS f1, f2, h1, h2

MCHostsOf == (f1 :> {h1}) @@ (f2 :> {h1, h2})

VARIABLE acting

Parts == {"publishing", "settings", "access", "sessions", "feeds", "profile"}

partVars == <<vars, settingsVars, accessVars, sessionVars, feedsVars, profileVars>>
serverVars == <<acting, partVars>>

ServerInit ==
  /\ acting \in Parts
  /\ Init /\ SettingsInit /\ AccessInit /\ SessionsInit /\ FeedsInit /\ ProfileInit
  /\ acting # "profile" => md = NoInode

PublishingActs ==
  /\ acting = "publishing" /\ Next
  /\ UNCHANGED <<settingsVars, accessVars, sessionVars, feedsVars, profileVars>>
SettingsAct ==
  /\ acting = "settings" /\ SettingsNext
  /\ UNCHANGED <<vars, accessVars, sessionVars, feedsVars, profileVars>>
AccessActs ==
  /\ acting = "access" /\ AccessNext
  /\ UNCHANGED <<vars, settingsVars, sessionVars, feedsVars, profileVars>>
SessionsAct ==
  /\ acting = "sessions" /\ SessionsNext
  /\ UNCHANGED <<vars, settingsVars, accessVars, feedsVars, profileVars>>
FeedsAct ==
  /\ acting = "feeds" /\ FeedsNext
  /\ UNCHANGED <<vars, settingsVars, accessVars, sessionVars, profileVars>>
ProfileActs ==
  /\ acting = "profile" /\ ProfileNext
  /\ UNCHANGED <<vars, settingsVars, accessVars, sessionVars, feedsVars>>

ServerNext ==
  /\ PublishingActs \/ SettingsAct \/ AccessActs \/ SessionsAct \/ FeedsAct \/ ProfileActs
  /\ UNCHANGED acting

ServerSpec == ServerInit /\ [][ServerNext]_serverVars

\* Types of the variables of every part.
ServerTypeOK ==
  /\ acting = "publishing" => TypeOK
  /\ acting = "settings" => SettingsTypeOK
  /\ acting = "access" => AccessTypeOK
  /\ acting = "sessions" => SessionsTypeOK
  /\ acting = "feeds" => FeedsTypeOK
  /\ acting = "profile" => ProfileTypeOK
===============================================================================
