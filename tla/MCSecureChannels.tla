-------------------------- MODULE MCSecureChannels --------------------------
\* Small instances of SecureChannels for TLC; the bounds are in the cfg files.
EXTENDS SecureChannels
=============================================================================
