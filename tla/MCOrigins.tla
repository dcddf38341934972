----------------------------- MODULE MCOrigins ------------------------------
EXTENDS Origins
\* store.go, seedStatuses: three in five available, then pending, then sold
MCSeedStatus(id) == IF ((id - 1) * 11) % 5 < 3 THEN "available" ELSE "pending"
MCListings == {<<"all", 0, 2>>, <<"available", 0, 1>>}
=============================================================================
