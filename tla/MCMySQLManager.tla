--------------------------- MODULE MCMySQLManager ---------------------------
EXTENDS MySQLManager
=============================================================================
