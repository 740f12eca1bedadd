----------------------------- MODULE MCCatalog -----------------------------
EXTENDS Catalog, TLC

Interchangeable == Permutations(Thread)
=============================================================================
