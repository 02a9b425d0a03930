-------------------------- MODULE MCCampaignPool --------------------------
EXTENDS CampaignPool
CONSTANTS t1, t2
=============================================================================
