\* Two minutes to the hour; a minute is swept one minute after it closes, so a
\* late batch can meet a swept row, an expired mark and a closed cache entry.
SPECIFICATION Spec
CONSTANTS
  b1 = b1
  b2 = b2
  b3 = b3
  Batches <- ThreeBatches
  Content <- ThreeContents
  MaxMinute = 4
  HourLen = 2
  MinuteKeep = 1
  HourKeep = 2
  SeenKeep = 1
  Window = 1
  MaxFaults = 1
INVARIANTS
  CachesCoherent
  LayersAgree
  SummaryIsCurrent
PROPERTY
  ImplementsLedger
