CONSTANTS
  tele = tele
  evm = evm
  out = out
  in = in
  u1 = u1
  u2 = u2
  Jobs = {tele, evm}
  Packets = {out, in}
  Senders = {u1, u2}
  NoSender = noSender
  NoRow = noRow
  Sender <- MCSender
  Log <- MCLog
  Teleport = {tele}
  MaxFailures = 2
SPECIFICATION Spec
INVARIANTS UserAmtIsSenders
