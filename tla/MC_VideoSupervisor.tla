------------------------- MODULE MC_VideoSupervisor -------------------------
EXTENDS VideoSupervisorProperties

=============================================================================
