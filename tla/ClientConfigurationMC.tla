-------------------------- MODULE ClientConfigurationMC --------------------------
(* A small instance of ClientConfiguration for TLC.                         *)
EXTENDS ClientConfiguration, TLC

CONSTANTS tab1, tab2, siteTab

MCTabs == <<tab1, tab2>>
MCDefaults == <<siteTab>>
MCBeforeTab == tab1 :> siteTab @@ tab2 :> NoTab
=============================================================================
