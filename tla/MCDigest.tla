------------------------------ MODULE MCDigest ------------------------------
EXTENDS Digest
=============================================================================
