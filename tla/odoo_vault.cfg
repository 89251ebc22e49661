\* The crons fall silent once every invoice is vaulted.
CHECK_DEADLOCK FALSE
SPECIFICATION FairSpec
CONSTANTS
  Moves = {m1}
  Payload = p
  Txns = {t1, t2}
  MaxAttempts = 2
  Faults = {"network", "crash", "refused", "unsealed", "init"}
  NoPayload = NoPayload
INVARIANTS TypeOK PendingIsIngested VaultedIsProven
PROPERTIES VaultedIsFinal PostedIsVaulted
