---- MODULE MCLdapSource ----
EXTENDS LdapSource
MCOptions == [deletes : BOOLEAN, lookup : BOOLEAN]
====
