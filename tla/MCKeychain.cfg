CONSTANTS
  Programs = {airport, delete, update, script}
  Role <- MCRole
  Handle <- MCHandle
  Query <- MCQuery
  Names <- MCNames
  Keychains = {system, login}
  Passwords = {old, new}
  New = new
  AirPort = AirPort
  Mail = Mail
  Proxy = Proxy
  SecureProxy = SecureProxy
  airport = airport
  None = None
  linksys = linksys
  system = system
  login = login
  update = update
  delete = delete
  script = script
  MaxAdds = 2
SPECIFICATION Spec
CHECK_DEADLOCK FALSE
INVARIANTS DeleteStatus UpdateStatus
PROPERTIES OnlyAskedChanged
