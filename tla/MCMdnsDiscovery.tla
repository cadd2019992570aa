-------------------------- MODULE MCMdnsDiscovery --------------------------
EXTENDS MdnsDiscovery
=============================================================================
