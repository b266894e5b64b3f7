------------------------------ MODULE MCCampaign ------------------------------
EXTENDS CampaignProperties
=============================================================================
