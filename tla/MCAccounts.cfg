\* Three tabs in two browsers: three clicks, and one mishap.
SPECIFICATION Spec
CONSTANTS
  t1 = t1  t2 = t2  t3 = t3  b1 = b1  b2 = b2
  ann = ann  Ann = Ann  bob = bob
  pa = pa  pb = pb
  Tabs = {t1, t2, t3}
  Browsers = {b1, b2}
  Browser <- MCBrowser
  Emails = {ann, Ann, bob}
  NormEmail <- MCNormEmail
  Passwords = {pa, pb}
  None = None
  Nothing = Nothing
  Types <- MCTypes
  MaxClicks = 3
  MaxMishaps = 1
SYMMETRY Alike
INVARIANTS
  TypeOK
  OneAccountPerEmail
  TokensAreEarned
  StorageAgrees
  CreatedAsShown
CHECK_DEADLOCK FALSE
