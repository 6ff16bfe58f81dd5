\* Three events and two changes to the files: any two lines, or a line and the snapshot.
CONSTANTS
  MaxEvents = 3
  MaxDamage = 2
  None = None
SPECIFICATION ReplaySpec
INVARIANT ReadsWhatItWrote
PROPERTY OpensAsWritten
