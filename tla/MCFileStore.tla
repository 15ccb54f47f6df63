---------------------------- MODULE MCFileStore -----------------------------
(* A small instance of FileStore for TLC.                                  *)
EXTENDS FileStore

CONSTANTS f1, f2, h1, h2

MCFiles    == {f1, f2}
MCHandlers == {h1, h2}
=============================================================================
