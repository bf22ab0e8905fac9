CONSTANTS
  Label <- MCLabel
  LabelLen <- MCLabelLen
  Fold <- MCFold
  HostLabel <- MCHostLabel
  AtomLabel <- MCAtomLabel
  Star = "*"
  MaxLabelLen = 3
  MaxNameLen = 8
  V4Bits = 2
  V6Bits = 3
  DNSStrings <- MCDNSStrings
  BitStrings <- MCBitStrings
  Mailboxes <- MCMailboxes
SPECIFICATION NamesSpec
INVARIANTS
  DNSMatching
  SubnetMatching
  MailboxConstraint
CHECK_DEADLOCK FALSE
