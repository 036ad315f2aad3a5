------------------------ MODULE MC_SpaceNotifications ------------------------
EXTENDS SpaceNotifications
=============================================================================
