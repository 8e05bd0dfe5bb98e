---------------------------- MODULE MCAttachments ----------------------------
EXTENDS Attachments

MCConnOf == <<"telegram", "whatsapp">>
MCMedium == <<"image", "none">>
==============================================================================
