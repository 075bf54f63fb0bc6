----------------------------- MODULE MCFsCache -----------------------------
EXTENDS FsCache
=============================================================================
