SPECIFICATION WorkbenchSpec
CONSTANTS
  Project = {a, b, c}
  NoProject = NoProject
  MaxClicks = 4
PROPERTY
  SettingsStayInTheirProject
CHECK_DEADLOCK FALSE
