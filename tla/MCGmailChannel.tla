--------------------------- MODULE MCGmailChannel ---------------------------
(* One touch, enough drafts for it to be drafted twice, two packets so that  *)
(* a refresh has something to bring, and one fault. That no capture marks    *)
(* another touch is proved for any number of them in GmailChannelProofs.     *)
EXTENDS GmailChannel
=============================================================================
