-------------------------- MODULE MCPrinterRegistry --------------------------
EXTENDS PrinterRegistry, TLC
MCAccounts == {{0}, {0, 1}}
MCSymmetry == Permutations(Thread) \cup Permutations(Client)
=============================================================================
