---------------------------- MODULE MCKeyStore ----------------------------
\* Small instances of KeyStore for TLC: files of one or two chunks by their sizes, f1
\* stored by LoadAndStoreFile and f2 by WriteFileToDisk.
EXTENDS KeyStore, ChunkSizes, TLC

CONSTANTS f1, f2, k1

\* 5 bytes in chunks of 4, 3 bytes in one.
TwoAndOne == (f1 :> TotalChunks(5)) @@ (f2 :> TotalChunks(3))
OneOnly   == f1 :> TotalChunks(3)

MCPowers == {1, 2, 4, 8, 16}

FirstFile == {f1}

BothWays   == {<<"load", f1>>, <<"write", f2>>}
LoadFirst  == {<<"load", f1>>}

AllSweeps == {"all", ".kdht", ".toml"}
=============================================================================
