\* Three terminals, as in the code: a handler can be left unfinished while two
\* other contexts run, start others and come back.  No process before the first
\* tick: the PCBs read as zero, as in memory an emulator hands out.
SPECIFICATION Spec
CONSTANTS
  NumTerminals = 3
  BootWakes = FALSE
INVARIANTS
  TypeOK
  ServiceHeld
  ClockAnswerable
PROPERTIES
  KeysAnswered
  ClockAnswered
  PreemptionGoesOn
